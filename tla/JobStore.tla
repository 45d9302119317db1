------------------------------ MODULE JobStore ------------------------------
(***************************************************************************)
(* The persistent job list: .a-exp/jobs.json and the class JobStore of     *)
(* infra/scheduler/src/store.ts, as several operating-system processes     *)
(* (the daemon, and one process per CLI command) use it without a lock.    *)
(*                                                                         *)
(* A thread is one chain of awaits that calls a JobStore: a scheduler tick *)
(* or a CLI command.  Threads of one process share the store object's      *)
(* `data`.  A call runs as the code does between its awaits: one action    *)
(* per file-system effect or per continuation,                             *)
(*                                                                         *)
(*   load:  readMain -> parse                                              *)
(*          readMain -> readTmp -> promote | legacy                        *)
(*          and, when dirty, save -> open -> write -> rename -> resume     *)
(*   then, unless the operation has nothing to save,                       *)
(*          save -> open -> write -> rename -> done                        *)
(*                                                                         *)
(* A file's content is a store (the parsed JSON), or Empty (opened with    *)
(* O_TRUNC, nothing written yet) or Torn (two writers over each other),    *)
(* neither of which parses.  readFile and the data written by one          *)
(* writeFile are taken as atomic; truncation and writing are two steps.    *)
(***************************************************************************)
EXTENDS Jobs

CONSTANTS
  Thread,        \* chains of awaits
  Process,       \* operating-system processes
  ProcOf,        \* the process of a thread
  LegacyStore,   \* what loadLegacyStore() returns
  FirstMain,     \* content of jobs.json at the start
  NoFile, Empty, Torn,
  NoData         \* this.data before the first load

Unparsable == {NoFile, Empty, Torn}
Content == Store \cup Unparsable

ASSUME JobStoreAssumption ==
  /\ JobSchedules \subseteq Schedule
  /\ ProcOf \in [Thread -> Process]
  /\ IsStore(LegacyStore)
  /\ FirstMain = NoFile \/ IsStore(FirstMain)
  /\ NoFile \notin {Empty, Torn}
  /\ \A x \in Unparsable \cup {NoData}, S \in SUBSET JobId : x \notin [S -> Job]

VARIABLES
  main,    \* content of jobs.json
  tmp,     \* content of jobs.json.tmp
  data,    \* this.data of each process
  pc,      \* where each thread is in its call
  call,    \* the call it executes
  text,    \* content it has read, or is writing, or the result it returns
  fd,      \* where the file it has opened for writing is linked now
  saving,  \* which save of the call runs: the one inside load, or its own
  now      \* Date.now()

storeVars == <<main, tmp, data, pc, call, text, fd, saving, now>>

PC == {"idle", "readMain", "parse", "readTmp", "promote", "legacy", "save",
       "open", "write", "rename", "resume", "done", "failed"}

StoreTypeOK ==
  /\ main \in Unparsable \/ IsStore(main)
  /\ tmp \in Unparsable \/ IsStore(tmp)
  /\ \A p \in Process : data[p] = NoData \/ IsStore(data[p])
  /\ pc \in [Thread -> PC]
  /\ \A t \in Thread : call[t] = NoCall \/ call[t] \in Call
  /\ \A t \in Thread : text[t] = NoFile \/ IsStore(text[t])
  /\ fd \in [Thread -> {"none", "tmp", "main", "gone"}]
  /\ saving \in [Thread -> {"load", "own"}]
  /\ now \in Nat

StoreInit ==
  /\ main = FirstMain
  /\ tmp = NoFile
  /\ data = [p \in Process |-> NoData]
  /\ pc = [t \in Thread |-> "idle"]
  /\ call = [t \in Thread |-> NoCall]
  /\ text = [t \in Thread |-> NoFile]
  /\ fd = [t \in Thread |-> "none"]
  /\ saving = [t \in Thread |-> "own"]
  /\ now = 0

-----------------------------------------------------------------------------
Goto(t, label) == pc' = [pc EXCEPT ![t] = label]
SetText(t, x) == text' = [text EXCEPT ![t] = x]
SetData(t, d) == data' = [data EXCEPT ![ProcOf[t]] = d]

(* A call starts: every operation begins with `await this.load()`. *)
Begin(t, c) ==
  /\ pc[t] = "idle"
  /\ Goto(t, "readMain")
  /\ call' = [call EXCEPT ![t] = c]
  /\ UNCHANGED <<main, tmp, data, text, fd, saving, now>>

(* The caller's continuation takes the result of the call; it says what      *)
(* becomes of this.data, which is gone when the process exits.               *)
End(t) ==
  /\ pc[t] \in {"done", "failed"}
  /\ Goto(t, "idle")
  /\ call' = [call EXCEPT ![t] = NoCall]
  /\ SetText(t, NoFile)
  /\ UNCHANGED <<main, tmp, fd, saving, now>>

(* The operation's own part, in the continuation of its load; d is this.data. *)
Perform(t, d) ==
  /\ saving' = [saving EXCEPT ![t] = "own"]
  /\ \/ /\ SavesNothing(call[t], d)
        /\ SetData(t, d)
        /\ SetText(t, d)
        /\ Goto(t, "done")
     \/ /\ ~SavesNothing(call[t], d)
        /\ SetData(t, Apply(call[t], d, now))
        /\ SetText(t, NoFile)
        /\ Goto(t, "save")

(* The end of load: reconcile the store d just read, save it when dirty. *)
Reconciling(t, d, dirty) ==
  \/ /\ dirty \/ IsDirty(d)
     /\ SetData(t, Reconcile(d, now))
     /\ saving' = [saving EXCEPT ![t] = "load"]
     /\ SetText(t, NoFile)
     /\ Goto(t, "save")
  \/ /\ ~(dirty \/ IsDirty(d))
     /\ Perform(t, d)

ReadMain(t) ==
  /\ pc[t] = "readMain"
  /\ \/ main \notin Unparsable /\ SetText(t, main) /\ Goto(t, "parse")
     \/ main \in Unparsable /\ Goto(t, "readTmp") /\ UNCHANGED text
  /\ UNCHANGED <<main, tmp, data, call, fd, saving, now>>

Parse(t) ==
  /\ pc[t] = "parse"
  /\ Reconciling(t, text[t], FALSE)
  /\ UNCHANGED <<main, tmp, call, fd, now>>

ReadTmp(t) ==
  /\ pc[t] = "readTmp"
  /\ \/ tmp \notin Unparsable /\ SetData(t, tmp) /\ Goto(t, "promote")
     \/ tmp \in Unparsable /\ Goto(t, "legacy") /\ UNCHANGED data
  /\ UNCHANGED <<main, tmp, call, text, fd, saving, now>>

(* rename(tmp, main); a writer that still has either file open follows it. *)
RenameTmpToMain ==
  /\ main' = tmp
  /\ tmp' = NoFile
  /\ fd' = [t \in Thread |->
              CASE fd[t] = "tmp" -> "main"
                [] fd[t] = "main" -> "gone"
                [] OTHER -> fd[t]]

(* Recovery: this.data is what tmp held when it was read, or what another   *)
(* thread has loaded since; jobs.json is what tmp holds now; the rename     *)
(* throws if someone has moved tmp meanwhile.                               *)
Promote(t) ==
  /\ pc[t] = "promote"
  /\ \/ /\ tmp # NoFile
        /\ RenameTmpToMain
        /\ Reconciling(t, data[ProcOf[t]], FALSE)
     \/ /\ tmp = NoFile
        /\ Goto(t, "legacy")
        /\ UNCHANGED <<main, tmp, data, text, fd, saving>>
  /\ UNCHANGED <<call, now>>

Legacy(t) ==
  /\ pc[t] = "legacy"
  /\ Reconciling(t, LegacyStore, DOMAIN LegacyStore # {})
  /\ UNCHANGED <<main, tmp, call, fd, now>>

(* save: mkdir has returned, JSON.stringify(this.data) *)
Stringify(t) ==
  /\ pc[t] = "save"
  /\ SetText(t, data[ProcOf[t]])
  /\ Goto(t, "open")
  /\ UNCHANGED <<main, tmp, data, call, fd, saving, now>>

(* Faulty variant: the save truncates jobs.json itself. *)
OpenInPlace(t) ==
  /\ pc[t] = "open"
  /\ main' = Empty
  /\ fd' = [fd EXCEPT ![t] = "main"]
  /\ Goto(t, "write")
  /\ UNCHANGED <<tmp, data, call, text, saving, now>>

Open(t) ==
  /\ pc[t] = "open"
  /\ tmp' = Empty
  /\ fd' = [fd EXCEPT ![t] = "tmp"]
  /\ Goto(t, "write")
  /\ UNCHANGED <<main, data, call, text, saving, now>>

(* The text over content c: if another writer has written since the file    *)
(* was truncated, the longer of the two may stick out behind the shorter.   *)
Written(x, c) == IF c = Empty THEN {x} ELSE {x, Torn}

Write(t) ==
  /\ pc[t] = "write"
  /\ \/ fd[t] = "tmp" /\ tmp' \in Written(text[t], tmp) /\ UNCHANGED main
     \/ fd[t] = "main" /\ main' \in Written(text[t], main) /\ UNCHANGED tmp
     \/ fd[t] = "gone" /\ UNCHANGED <<main, tmp>>
  /\ fd' = [fd EXCEPT ![t] = "none"]
  /\ SetText(t, NoFile)
  /\ Goto(t, "rename")
  /\ UNCHANGED <<data, call, saving, now>>

(* Faulty variant: a call whose load has saved returns without its own part. *)
RenameEndsCall(t) ==
  /\ pc[t] = "rename"
  /\ \/ /\ tmp # NoFile
        /\ RenameTmpToMain
        /\ Goto(t, "done")
     \/ /\ tmp = NoFile
        /\ Goto(t, "failed")
        /\ UNCHANGED <<main, tmp, fd>>
  /\ UNCHANGED <<data, call, text, saving, now>>

(* ENOENT when another save or a recovery has moved tmp: save() throws. *)
Rename(t) ==
  /\ pc[t] = "rename"
  /\ \/ /\ tmp # NoFile
        /\ RenameTmpToMain
        /\ Goto(t, IF saving[t] = "load" THEN "resume" ELSE "done")
     \/ /\ tmp = NoFile
        /\ Goto(t, "failed")
        /\ UNCHANGED <<main, tmp, fd>>
  /\ UNCHANGED <<data, call, text, saving, now>>

(* load returns after its save: the operation finds this.data as it is now. *)
Resume(t) ==
  /\ pc[t] = "resume"
  /\ Perform(t, data[ProcOf[t]])
  /\ UNCHANGED <<main, tmp, call, fd, now>>

StoreStep(t) ==
  \/ ReadMain(t) \/ Parse(t) \/ ReadTmp(t) \/ Promote(t) \/ Legacy(t)
  \/ Stringify(t) \/ Open(t) \/ Write(t) \/ Rename(t) \/ Resume(t)

(* A process dies: its threads and its memory are gone, the files stay. *)
ProcessDies(p) ==
  LET dead == {t \in Thread : ProcOf[t] = p} IN
  /\ data' = [data EXCEPT ![p] = NoData]
  /\ pc' = [t \in Thread |-> IF t \in dead THEN "idle" ELSE pc[t]]
  /\ call' = [t \in Thread |-> IF t \in dead THEN NoCall ELSE call[t]]
  /\ text' = [t \in Thread |-> IF t \in dead THEN NoFile ELSE text[t]]
  /\ fd' = [t \in Thread |-> IF t \in dead THEN "none" ELSE fd[t]]
  /\ saving' = [t \in Thread |-> IF t \in dead THEN "own" ELSE saving[t]]
  /\ UNCHANGED <<main, tmp, now>>

-----------------------------------------------------------------------------
(* What a process that starts now would find. *)
Durable ==
  IF main \notin Unparsable THEN main
  ELSE IF tmp \notin Unparsable THEN tmp
  ELSE LegacyStore

(* Whether the operation of thread t has changed what a restart would find: *)
(* its save has been renamed, or has been written where no jobs.json is.    *)
Applied(t) ==
  /\ saving[t] = "own"
  /\ \/ pc[t] = "done" /\ text[t] = NoFile
     \/ pc[t] = "rename" /\ main \in Unparsable
=============================================================================

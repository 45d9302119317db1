---------------------------- MODULE ApprovalQueue ----------------------------
(***************************************************************************)
(* APPROVAL_QUEUE.md and the [approval-needed] tags of the task lists.     *)
(* Agents request approvals, the chat side of notify.ts decides or         *)
(* discusses parsed items it may have held for long, people edit the file  *)
(* by hand, and the verifier and the validator look for tags out of step.  *)
(*                                                                         *)
(* The Pending section is a sequence of lines.  A call of notify.ts reads  *)
(* the file in one step and writes it whole in another.                    *)
(***************************************************************************)
EXTENDS Naturals, Sequences, SequencesExt

CONSTANTS
  Tasks,
  Text, Title, \* the text of each task and the title of its request, in lower case
  Words,      \* the words of a text of more than three letters, in their order
  Substring,  \* the pairs of a text or a word and a text that includes it
  ByHand,     \* the decisions people write by hand
  MaxHeld, MaxLines, MaxEntries,   \* bounds of held items, lines and entries
  MaxCalls                         \* and of the calls ever made

Texts == {Text[t] : t \in Tasks} \cup {Title[t] : t \in Tasks}

ASSUME WordsAreInTheText ==
  \A s \in Texts : /\ Words[s] \in Seq(Range(Words[s]))
                    /\ \A w \in Range(Words[s]) : <<w, s>> \in Substring
ASSUME DecisionsByHand == ByHand \subseteq {"approved", "denied", "modified"}
ASSUME CallsAreBounded == MaxCalls \in Nat

VARIABLES
  pending,    \* lines of the Pending section
  resolved,   \* entries of the Resolved section
  tag,        \* the tag of each task
  held,       \* parsed items in the hands of the chat side
  calls,      \* calls between their read and their write
  made        \* calls ever made

vars == <<pending, resolved, tag, held, calls, made>>

Blank == <<"blank">>
Line == {Blank} \cup ({"header", "note"} \X Tasks)
IsHeader(line) == line[1] = "header"
Headers(lines) == {line[2] : line \in {l \in Range(lines) : IsHeader(l)}}

(* Faulty variant: a block runs to the end of the section. *)
BlockToTheEnd(lines, i) == SubSeq(lines, i, Len(lines))

(* The lines from a header to the next one: rawBlock of parsePendingItems. *)
Block(lines, i) ==
  LET next == {j \in i + 1 .. Len(lines) : IsHeader(lines[j])}
  IN SubSeq(lines, i, IF next = {} THEN Len(lines) ELSE Min(next) - 1)

(* parsePendingItems. *)
Items(lines) ==
  {[task |-> lines[i][2], raw |-> Block(lines, i)] :
     i \in {j \in DOMAIN lines : IsHeader(lines[j])}}

TrimEnd(lines) == IF Last(lines) = Blank THEN Front(lines) ELSE lines

(* Faulty variant: what is left of the section stays as it is. *)
SettledAsIs(lines) == lines

(* The placeholder of an empty section replaces its blank lines. *)
Settled(lines) == IF Range(lines) \subseteq {Blank} THEN <<>> ELSE lines

TypeOK ==
  /\ pending \in Seq(Line) /\ (pending # <<>> => Range(pending) # {Blank})
  /\ resolved \subseteq Tasks \X {"approved", "denied", "modified"}
  /\ tag \in [Tasks -> {"none", "needed", "approved"}]
  /\ \A i \in held : i.task \in Tasks /\ i.raw \in Seq(Line)
  /\ Cardinality(calls) <= made /\ made \in 0 .. MaxCalls

Init == /\ pending = <<>> /\ resolved = {} /\ held = {} /\ calls = {} /\ made = 0
        /\ tag = [t \in Tasks |-> "none"]

-----------------------------------------------------------------------------
(* An agent tags a task and appends its request. *)
Request(t) ==
  /\ tag[t] = "none" /\ Len(pending) + 2 <= MaxLines
  /\ tag' = [tag EXCEPT ![t] = "needed"]
  /\ pending' = pending \o (IF pending = <<>> \/ Last(pending) = Blank
                            THEN <<>> ELSE <<Blank>>) \o <<<<"header", t>>>>
  /\ UNCHANGED <<resolved, held, calls, made>>

(* An agent acts on a decision about a task. *)
Retag(t) ==
  /\ tag[t] = "needed"
  /\ \E d \in {"approved", "denied", "modified"} :
       /\ <<t, d>> \in resolved
       /\ tag' = [tag EXCEPT ![t] = IF d = "denied" THEN "none" ELSE "approved"]
  /\ UNCHANGED <<pending, resolved, held, calls, made>>

(* A human moves an item by hand. *)
MoveByHand(item, d) ==
  /\ item \in Items(pending) /\ Cardinality(resolved) < MaxEntries
  /\ pending' = Settled(ReplaceFirstSubSeq(<<>>, item.raw, pending))
  /\ resolved' = resolved \cup {<<item.task, d>>}
  /\ UNCHANGED <<tag, held, calls, made>>

(* getPendingApprovals on behalf of a message. *)
Look(item) ==
  /\ item \in Items(pending) \ held /\ Cardinality(held) < MaxHeld
  /\ held' = held \cup {item}
  /\ UNCHANGED <<pending, resolved, tag, calls, made>>

(* resolveApproval, addInterviewQuestion, addInterviewAnswer: the read.  A  *)
(* question or an answer is a note.                                         *)
Begin(item, what) ==
  /\ item \in held /\ held' = held \ {item}
  /\ made < MaxCalls /\ made' = made + 1
  /\ calls' = calls \cup {[item |-> item, what |-> what, pending |-> pending,
                           resolved |-> resolved]}
  /\ UNCHANGED <<pending, resolved, tag>>

(* What the call makes of what it has read.  A block that is not there      *)
(* any more in these words is replaced by nothing, and the entry is added   *)
(* all the same.                                                            *)
Decides(c) == c.what \in {"approved", "denied"}
PendingAfter(c) ==
  IF Decides(c) THEN Settled(ReplaceFirstSubSeq(<<>>, c.item.raw, c.pending))
  ELSE ReplaceFirstSubSeq(TrimEnd(c.item.raw) \o <<<<c.what, c.item.task>>>>,
                          c.item.raw, c.pending)

(* Faulty variant: the new entry takes the place of what is there. *)
ResolvedAfterReplacing(c) ==
  IF Decides(c) THEN {<<c.item.task, c.what>>} ELSE c.resolved

ResolvedAfter(c) ==
  c.resolved \cup (IF Decides(c) THEN {<<c.item.task, c.what>>} ELSE {})

(* Their write. *)
Finish(c) ==
  /\ c \in calls /\ calls' = calls \ {c}
  /\ pending' = PendingAfter(c)
  /\ resolved' = ResolvedAfter(c)
  /\ Len(pending') <= MaxLines /\ Cardinality(resolved') <= MaxEntries
  /\ UNCHANGED <<tag, held, made>>

Next ==
  \/ \E t \in Tasks : Request(t)
  \/ \E t \in Tasks : Retag(t)
  \/ \E item \in Items(pending), d \in ByHand : MoveByHand(item, d)
  \/ \E item \in Items(pending) : Look(item)
  \/ \E item \in held, what \in {"approved", "denied", "note"} :
       Begin(item, what)
  \/ \E c \in calls : Finish(c)

Spec == Init /\ [][Next]_vars

-----------------------------------------------------------------------------
(* Does the task's text match one of the titles?  matchesTitle of           *)
(* checkOrphanedApprovalTags: a word that occurs twice counts twice.        *)
Occurring(t, u) == {i \in DOMAIN Words[Text[t]] : <<Words[Text[t]][i], Title[u]>> \in Substring}
OneInTheOther(t, u) ==
  <<Title[u], Text[t]>> \in Substring \/ <<Text[t], Title[u]>> \in Substring
Matches(t, titles) ==
  \E u \in titles : Cardinality(Occurring(t, u)) >= 2 \/ OneInTheOther(t, u)

(* extractDeniedApprovalTitles, extractApprovedApprovalTitles. *)
Decided(d) == {u \in Tasks : <<u, d>> \in resolved}

(* Faulty variant: a pending entry excuses the tag. *)
VerifyTagPendingFirst(t) ==
  CASE Matches(t, Headers(pending))    -> "fine"
    [] Matches(t, Decided("denied"))   -> "denied"
    [] Matches(t, Decided("approved")) -> "approved"
    [] OTHER                           -> "orphaned"

(* What checkOrphanedApprovalTags says of a task with the tag. *)
VerifyTag(t) ==
  IF Matches(t, Decided("denied")) THEN "denied"
  ELSE IF Matches(t, Decided("approved")) THEN "approved"
  ELSE IF Matches(t, Headers(pending)) THEN "fine" ELSE "orphaned"

(* _extract_approved_titles takes every entry, whatever the decision. *)
ResolvedTitles == {e[1] : e \in resolved}

(* _task_matches_approved, for texts without punctuation. *)
TaskMatches(t, u) ==
  LET task  == Range(Words[Text[t]])
      title == Range(Words[Title[u]])
  IN \/ OneInTheOther(t, u)
     \/ /\ task # {} /\ title # {}
        /\ \E size \in {Cardinality(task), Cardinality(title)} :
             2 * Cardinality(task \cap title) >= size

(* validate_stale_approval_tags. *)
ValidatorFlags(t) == \E u \in ResolvedTitles : TaskMatches(t, u)

-----------------------------------------------------------------------------
Waiting == {t \in Tasks : tag[t] = "needed"}

(* Requests with an item or an entry. *)
Recorded(lines, entries) == Headers(lines) \cup {e[1] : e \in entries}

(* No write, however late and whatever the age of the item it was made      *)
(* from, loses a request that was in the file when its call read it: it is  *)
(* still pending then, or has an entry.  Only a request made or moved       *)
(* between the read and the write of a call can be lost to it.              *)
LostUnread ==
  \A t \in Recorded(pending, resolved) \ Recorded(pending, resolved)' :
    \E c \in calls \ calls' : t \notin Recorded(c.pending, c.resolved)
ReadRequestsAreKept == [][LostUnread]_vars

(* A stale tag the validator warns of is one the verifier warns of too,     *)
(* under its other rule and whatever else has been put back into the file:  *)
(* where the validator compares whole words, of a text and a title of at    *)
(* least three.  Only the validator knows the decision "modified".          *)
ThreeWords(t, u) ==
  \A s \in {Text[t], Title[u]} : Cardinality(Range(Words[s])) >= 3
StaleTagIsReportedTwice ==
  \A t \in Waiting :
    (\E d \in {"approved", "denied"}, u \in Tasks :
       u \in Decided(d) /\ TaskMatches(t, u) /\ ThreeWords(t, u)) =>
    ValidatorFlags(t) /\ VerifyTag(t) \in {"approved", "denied"}

(* A decision that is written while nobody else has written removes no      *)
(* other item's request, however old the item it was made from is.          *)
SparesOthers ==
  \A c \in calls \ calls' :
    Decides(c) /\ c.pending = pending =>
      Headers(pending) \ {c.item.task} \subseteq Headers(pending)'
DecisionSparesOthers == [][SparesOthers]_vars
=============================================================================

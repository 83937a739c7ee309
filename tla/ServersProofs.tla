---------------------------- MODULE ServersProofs ----------------------------
(***************************************************************************)
(* What the front ends keep, for every number of calls, prompts, chats and *)
(* models: the approvals of the broker (ToolApproval), the settings of the *)
(* terminal (ChatSettings), a session of the ACP server (AcpServer), and   *)
(* the keys and the answer in the terminal (Composer).                     *)
(***************************************************************************)
EXTENDS AcpServer, ToolApproval, ChatSettings, Composer, SequenceTheorems, TLAPS

-----------------------------------------------------------------------------
(***************************************************************************)
(* The line of prompts.                                                    *)
(***************************************************************************)

\* Leaving a place of a sequence shifts what stands behind it by one.
LEMMA RemovedAt ==
    ASSUME NEW S, NEW s \in Seq(S), NEW i \in 1..Len(s)
    PROVE  /\ RemoveAt(s, i) \in Seq(S)
           /\ Len(RemoveAt(s, i)) = Len(s) - 1
           /\ \A j \in 1..(Len(s) - 1) : RemoveAt(s, i)[j] = IF j < i THEN s[j] ELSE s[j + 1]
<1> DEFINE before == SubSeq(s, 1, i - 1)
           after == SubSeq(s, i + 1, Len(s))
<1>1. before \in Seq(S) /\ Len(before) = i - 1 /\ \A j \in 1..(i - 1) : before[j] = s[j]
  OBVIOUS
<1>2. after \in Seq(S) /\ Len(after) = Len(s) - i /\ \A j \in 1..(Len(s) - i) : after[j] = s[j + i]
  <2>1. CASE i = Len(s)
    BY <2>1
  <2>2. CASE i < Len(s)
    BY <2>2
  <2> QED BY <2>1, <2>2
<1>3. RemoveAt(s, i) = before \o after
  BY DEF RemoveAt
<1> HIDE DEF before, after
<1>4. /\ before \o after \in Seq(S)
      /\ Len(before \o after) = Len(before) + Len(after)
      /\ \A j \in 1..Len(before) + Len(after) :
             (before \o after)[j] = IF j <= Len(before) THEN before[j] ELSE after[j - Len(before)]
  BY <1>1, <1>2, ConcatProperties
<1>5. Len(before) + Len(after) = Len(s) - 1
  BY <1>1, <1>2
<1>6. ASSUME NEW j \in 1..(Len(s) - 1)
      PROVE  (before \o after)[j] = IF j < i THEN s[j] ELSE s[j + 1]
  <2>1. CASE j < i
    BY <1>1, <1>4, <1>5, <2>1
  <2>2. CASE ~(j < i)
    <3>1. (before \o after)[j] = after[j - (i - 1)]
      BY <1>1, <1>4, <1>5, <2>2
    <3>2. j - (i - 1) \in 1..(Len(s) - i) /\ (j - (i - 1)) + i = j + 1
      BY <2>2
    <3> QED BY <3>1, <3>2, <1>2, <2>2
  <2> QED BY <2>1, <2>2
<1> QED BY <1>3, <1>4, <1>5, <1>6

\* Who stands in a line, and that nobody stands in it twice.
Holds(s, d) == \E k \in DOMAIN s : s[k] = d
Once(s) == \A j, k \in DOMAIN s : s[j] = s[k] => j = k

\* A call that joins the line is its last, one that leaves it anywhere is gone:
\* the others stay, once.
LEMMA Joined ==
    ASSUME NEW S, NEW s \in Seq(S), NEW c \in S, Once(s), ~Holds(s, c), NEW d
    PROVE  /\ Append(s, c) \in Seq(S) /\ Once(Append(s, c))
           /\ Holds(Append(s, c), d) <=> (Holds(s, d) \/ d = c)
<1>1. Append(s, c) \in Seq(S) /\ Len(Append(s, c)) = Len(s) + 1
  OBVIOUS
<1>2. \A k \in 1..Len(s) : Append(s, c)[k] = s[k]
  OBVIOUS
<1>3. Append(s, c)[Len(s) + 1] = c
  OBVIOUS
<1>4. DOMAIN s = 1..Len(s) /\ DOMAIN Append(s, c) = 1..(Len(s) + 1)
  BY <1>1
<1> QED BY <1>1, <1>2, <1>3, <1>4 DEF Once, Holds

LEMMA Gone ==
    ASSUME NEW S, NEW s \in Seq(S), Once(s), NEW i \in DOMAIN s, NEW d
    PROVE  /\ RemoveAt(s, i) \in Seq(S) /\ Once(RemoveAt(s, i))
           /\ Holds(RemoveAt(s, i), d) <=> (Holds(s, d) /\ d # s[i])
<1> DEFINE r == RemoveAt(s, i)
<1>1. DOMAIN s = 1..Len(s) /\ Len(s) \in Nat /\ i \in 1..Len(s)
  OBVIOUS
<1>2. /\ r \in Seq(S) /\ Len(r) = Len(s) - 1
      /\ \A j \in 1..(Len(s) - 1) : r[j] = IF j < i THEN s[j] ELSE s[j + 1]
  BY <1>1, RemovedAt
<1>3. DOMAIN r = 1..(Len(s) - 1)
  BY <1>2
<1> HIDE DEF r
<1>4. Once(r)
  <2> SUFFICES ASSUME NEW j \in 1..(Len(s) - 1), NEW k \in 1..(Len(s) - 1), r[j] = r[k]
               PROVE  j = k
    BY <1>3 DEF Once
  <2>1. PICK x \in 1..Len(s) : s[x] = r[j] /\ x = IF j < i THEN j ELSE j + 1
    BY <1>1, <1>2
  <2>2. PICK y \in 1..Len(s) : s[y] = r[k] /\ y = IF k < i THEN k ELSE k + 1
    BY <1>1, <1>2
  <2>3. x = y
    BY <2>1, <2>2, <1>1 DEF Once
  <2> QED BY <2>1, <2>2, <2>3, <1>1
<1>5. ASSUME Holds(r, d) PROVE Holds(s, d) /\ d # s[i]
  <2> PICK k \in 1..(Len(s) - 1) : r[k] = d
    BY <1>3, <1>5 DEF Holds
  <2>1. CASE k < i
    BY <2>1, <1>1, <1>2 DEF Once, Holds
  <2>2. CASE ~(k < i)
    <3>1. d = s[k + 1] /\ k + 1 \in 1..Len(s) /\ k + 1 # i
      BY <2>2, <1>1, <1>2
    <3> QED BY <3>1, <1>1 DEF Once, Holds
  <2> QED BY <2>1, <2>2
<1>6. ASSUME Holds(s, d), d # s[i] PROVE Holds(r, d)
  <2> PICK k \in DOMAIN s : s[k] = d
    BY <1>6 DEF Holds
  <2>1. CASE k < i
    BY <2>1, <1>1, <1>2, <1>3 DEF Holds
  <2>2. CASE k > i
    <3>1. k - 1 \in 1..(Len(s) - 1) /\ ~(k - 1 < i) /\ (k - 1) + 1 = k
      BY <2>2, <1>1
    <3>2. r[k - 1] = d
      BY <3>1, <1>2
    <3> QED BY <3>1, <3>2, <1>3 DEF Holds
  <2> QED BY <1>1, <1>6, <2>1, <2>2
<1> QED BY <1>2, <1>4, <1>5, <1>6 DEF r

LEMMA HeadLeft ==
    ASSUME NEW S, NEW s \in Seq(S), Once(s), s # <<>>, NEW d
    PROVE  /\ Tail(s) \in Seq(S) /\ Once(Tail(s))
           /\ Holds(Tail(s), d) <=> (Holds(s, d) /\ d # Head(s))
<1>1. /\ Tail(s) \in Seq(S) /\ Len(Tail(s)) = Len(s) - 1 /\ Len(s) \in Nat \ {0}
      /\ DOMAIN s = 1..Len(s) /\ Head(s) = s[1]
  OBVIOUS
<1>2. \A k \in 1..(Len(s) - 1) : Tail(s)[k] = s[k + 1]
  OBVIOUS
<1>3. DOMAIN Tail(s) = 1..(Len(s) - 1)
  BY <1>1
<1>4. Once(Tail(s))
  BY <1>1, <1>2, <1>3 DEF Once
<1>5. ASSUME Holds(Tail(s), d) PROVE Holds(s, d) /\ d # Head(s)
  BY <1>1, <1>2, <1>3, <1>5 DEF Once, Holds
<1>6. ASSUME Holds(s, d), d # Head(s) PROVE Holds(Tail(s), d)
  <2> PICK k \in DOMAIN s : s[k] = d
    BY <1>6 DEF Holds
  <2>1. k - 1 \in 1..(Len(s) - 1) /\ (k - 1) + 1 = k
    BY <1>1, <1>6
  <2>2. Tail(s)[k - 1] = d
    BY <2>1, <1>2
  <2> QED BY <2>1, <2>2, <1>3 DEF Holds
<1> QED BY <1>1, <1>4, <1>5, <1>6
-----------------------------------------------------------------------------
(***************************************************************************)
(* Approvals.  The invariant says who stands in the line: the calls that   *)
(* ask, once each, and they ask a person who has something to decide.      *)
(***************************************************************************)

CallPlaces == {"unsent", "asking", "running", "ran", "rejected", "answered", "cancelled"}
CallRecords == [at : CallPlaces, kind : CallKinds, under : Modes \X Shells]

ApprovalTypes ==
    /\ host \in Hosts /\ mode \in Modes /\ shells \in Shells
    /\ call \in [Calls -> CallRecords]
    /\ age \in [Calls -> 0..ResultWindow + 1] /\ shown \in 0..QuestionTimeout
    /\ said \subseteq Calls

InLine ==
    /\ line \in Seq(Calls) /\ Once(line)
    /\ \A d \in Calls : Holds(line, d) <=> call[d].at = "asking"

PersonsAreAsked ==
    \A c \in Calls : call[c].at = "asking" =>
        Person /\ call[c].kind \notin {"read", "library", "foreign"}

ApprovalInv == ApprovalTypes /\ InLine /\ PersonsAreAsked /\ NothingRunsUnapproved

\* The invariant's two ways to say who is in line are one.
LEMMA ApprovalTyped == ApprovalTypes /\ InLine => ApprovalTypeOK
<1> SUFFICES ASSUME ApprovalTypes, InLine PROVE ApprovalTypeOK
  OBVIOUS
<1>1. IsInjective(line)
  BY DEF InLine, Once, IsInjective
<1>2. \A d \in ToSet(line) : d \in Calls /\ Holds(line, d)
  BY DEF InLine, Holds, ToSet
<1>3. \A d \in Calls : Holds(line, d) => d \in ToSet(line)
  BY DEF Holds, ToSet
<1>4. ToSet(line) = {c \in Calls : call[c].at = "asking"}
  BY <1>2, <1>3 DEF InLine
<1> QED BY <1>1, <1>4 DEF ApprovalTypes, InLine, ApprovalTypeOK, CallPlaces, CallRecords

\* The call that is shown leaves the line for good.
LEMMA ShownLeaves ==
    ASSUME ApprovalTypes, InLine, NEW c \in Calls, Prompted(c),
           NEW at \in CallPlaces \ {"asking"}, Leaves(c, at)
    PROVE  /\ call[c].at = "asking" /\ shown' = 0
           /\ call' = [call EXCEPT ![c].at = at] /\ call' \in [Calls -> CallRecords]
           /\ InLine'
<1>1. line # <<>> /\ Head(line) = c /\ line \in Seq(Calls)
  BY DEF Prompted, InLine
<1>2. call[c].at = "asking"
  <2>1. 1 \in DOMAIN line /\ line[1] = c
    BY <1>1
  <2> QED BY <2>1 DEF InLine, Holds
<1>3. call' = [call EXCEPT ![c].at = at] /\ line' = Tail(line) /\ shown' = 0
  BY DEF Leaves
<1>4. call' \in [Calls -> CallRecords]
  BY <1>3 DEF ApprovalTypes, CallRecords
<1>5. \A d \in Calls : call'[d].at = IF d = c THEN at ELSE call[d].at
  BY <1>3 DEF ApprovalTypes, CallRecords
<1>6. line' \in Seq(Calls) /\ Once(line') /\ \A d : Holds(line', d) <=> (Holds(line, d) /\ d # c)
  BY <1>1, <1>3, HeadLeft DEF InLine
<1>7. InLine'
  BY <1>5, <1>6 DEF InLine
<1> QED BY <1>2, <1>3, <1>4, <1>7

\* Whether a call was permitted is settled by its own record, and by who said yes.
LEMMA PermittedStays ==
    ASSUME ApprovalTypes, NEW c \in Calls, Permitted(c), host' = host, said \subseteq said',
           call'[c].kind = call[c].kind, call'[c].under = call[c].under
    PROVE  Permitted(c)'
BY DEF Permitted, Person

\* A yes to the very call permits it, unless no yes can.
LEMMA SaidPermits ==
    ASSUME ApprovalTypes, NEW c \in Calls, Person, host' = host, c \in said',
           call'[c].kind \in CallKinds \ {"foreign", "question"}
    PROVE  Permitted(c)'
BY DEF Permitted, Person, CallKinds

LEMMA RequestStep ==
    ASSUME ApprovalInv, NEW c \in Calls, NEW kind \in CallKinds, Request(c, kind)
    PROVE  ApprovalInv'
<1> USE DEF ApprovalInv
<1>1. host' = host /\ mode' = mode /\ shells' = shells /\ age' = age /\ shown' = shown /\ said' = said
  BY DEF Request
<1>2. Policy(kind) \in Modes \X Shells
  BY DEF ApprovalTypes, Policy, Modes, Shells
<1>3. PICK at \in {"running", "rejected", "asking"} :
          /\ Place(c, kind, at)
          /\ line' = IF at = "asking" THEN Append(line, c) ELSE line
          /\ at = "asking" => Person /\ ~Free(kind) /\ ~Refused(kind)
          /\ at = "running" =>
                 (Free(kind) \/ (host = "validate" /\ kind \in {"routine", "write", "shell"}))
  BY DEF Request, PolicyAllows, Person
<1>4. call' = [call EXCEPT ![c] = [at |-> at, kind |-> kind, under |-> Policy(kind)]]
  BY <1>3 DEF Place
<1>5. [at |-> at, kind |-> kind, under |-> Policy(kind)] \in CallRecords
  BY <1>2, <1>3 DEF CallRecords, CallPlaces
<1>6. /\ call' \in [Calls -> CallRecords]
      /\ call'[c] = [at |-> at, kind |-> kind, under |-> Policy(kind)]
      /\ \A d \in Calls \ {c} : call'[d] = call[d]
  BY <1>4, <1>5 DEF ApprovalTypes
<1>7. ApprovalTypes'
  BY <1>1, <1>6 DEF ApprovalTypes
<1>8. call[c].at = "unsent"
  BY DEF Request
<1>9. InLine'
  <2>1. CASE at = "asking"
    <3>1. ~Holds(line, c)
      BY <1>8 DEF InLine
    <3>2. /\ line' \in Seq(Calls) /\ Once(line')
          /\ \A d : Holds(line', d) <=> (Holds(line, d) \/ d = c)
      BY <1>3, <2>1, <3>1, Joined DEF InLine
    <3> QED BY <3>2, <1>6, <2>1 DEF InLine
  <2>2. CASE at # "asking"
    BY <1>3, <1>6, <1>8, <2>2 DEF InLine
  <2> QED BY <2>1, <2>2
<1>10. PersonsAreAsked'
  BY <1>1, <1>3, <1>6 DEF PersonsAreAsked, Person, Free, Refused
<1>11. ASSUME at = "running" PROVE Permitted(c)'
  <2>1. CASE host = "validate" /\ kind \in {"routine", "write", "shell"}
    BY <2>1, <1>1, <1>6 DEF Permitted
  <2>2. CASE kind \in {"read", "library"}
    BY <2>2, <1>6 DEF Permitted
  <2>3. CASE kind \in Gated /\ mode = "yolo"
    <3>1. call'[c].under[1] = "yolo" /\ call'[c].kind = kind
      BY <2>3, <1>6 DEF Policy
    <3> QED BY <2>3, <3>1 DEF Permitted, Gated
  <2>4. CASE mode = "auto" /\ AutoAllows(kind)
    <3>1. kind \in Gated
      BY <2>4 DEF AutoAllows, Gated
    <3>2. call'[c].under[1] = "auto" /\ call'[c].under[2] = shells /\ call'[c].kind = kind
      BY <2>4, <3>1, <1>6 DEF Policy
    <3>3. CASE kind = "routine"
      BY <3>2, <3>3 DEF Permitted
    <3>4. CASE kind = "shell" /\ shells \in {"normal", "all"}
      BY <3>2, <3>4 DEF Permitted
    <3>5. CASE kind = "danger" /\ shells = "all"
      BY <3>2, <3>5 DEF Permitted
    <3> QED BY <2>4, <3>3, <3>4, <3>5 DEF AutoAllows
  <2> QED BY <1>11, <1>3, <2>1, <2>2, <2>3, <2>4 DEF Free
<1>12. NothingRunsUnapproved'
  <2> SUFFICES ASSUME NEW d \in Calls, call'[d].at \in {"running", "ran"} PROVE Permitted(d)'
    BY DEF NothingRunsUnapproved
  <2>1. CASE d = c
    BY <2>1, <1>6, <1>11
  <2>2. CASE d # c
    BY <2>2, <1>1, <1>6, PermittedStays DEF NothingRunsUnapproved
  <2> QED BY <2>1, <2>2
<1> QED BY <1>7, <1>9, <1>10, <1>12
\* A call that stops asking, or has run, leaves the others as they were.
LEMMA MovesOn ==
    ASSUME ApprovalInv, NEW c \in Calls, NEW at \in CallPlaces \ {"asking"},
           call' = [call EXCEPT ![c].at = at], host' = host, said \subseteq said',
           at \in {"running", "ran"} => Permitted(c)'
    PROVE  PersonsAreAsked' /\ NothingRunsUnapproved'
<1> USE DEF ApprovalInv
<1>1. /\ call'[c].at = at
      /\ \A d \in Calls \ {c} : call'[d] = call[d]
  BY DEF ApprovalTypes, CallRecords
<1>2. PersonsAreAsked'
  BY <1>1 DEF PersonsAreAsked, Person
<1>3. ASSUME NEW d \in Calls, call'[d].at \in {"running", "ran"} PROVE Permitted(d)'
  <2>1. CASE d = c
    BY <2>1, <1>1, <1>3
  <2>2. CASE d # c
    BY <2>2, <1>1, <1>3, PermittedStays DEF NothingRunsUnapproved
  <2> QED BY <2>1, <2>2
<1> QED BY <1>2, <1>3 DEF NothingRunsUnapproved

\* What the head of the line is answered: a yes is a yes to that call.
LEMMA LeavesStep ==
    ASSUME ApprovalInv, NEW c \in Calls, Prompted(c), NEW at \in {"running", "rejected", "answered"},
           Leaves(c, at), host' = host, mode' \in Modes, shells' \in Shells, age' = age,
           said \subseteq said', said' \subseteq Calls,
           at = "running" => c \in said' /\ call[c].kind # "question"
    PROVE  ApprovalInv'
<1> USE DEF ApprovalInv
<1>1. /\ call[c].at = "asking" /\ shown' = 0
      /\ call' = [call EXCEPT ![c].at = at] /\ call' \in [Calls -> CallRecords]
      /\ InLine'
  BY ShownLeaves DEF CallPlaces
<1>2. ApprovalTypes'
  BY <1>1, ApprovalAssumption DEF ApprovalTypes
<1>3. call'[c].kind = call[c].kind /\ call[c].kind \in CallKinds
  BY <1>1 DEF ApprovalTypes, CallRecords
<1>4. ASSUME at \in {"running", "ran"} PROVE Permitted(c)'
  <2>1. Person /\ call[c].kind # "foreign"
    BY <1>1 DEF PersonsAreAsked
  <2> QED BY <1>3, <1>4, <2>1, SaidPermits
<1>5. PersonsAreAsked' /\ NothingRunsUnapproved'
  BY <1>1, <1>4, MovesOn DEF CallPlaces
<1> QED BY <1>1, <1>2, <1>5

LEMMA AnswerStep ==
    ASSUME ApprovalInv, NEW c \in Calls, Answer(c) \/ Skip(c)
    PROVE  ApprovalInv'
<1>0. mode \in Modes /\ shells \in Shells /\ said \subseteq Calls
  BY DEF ApprovalInv, ApprovalTypes
<1>1. CASE SayYes(c)
  <2>1. PICK at \in {"running", "answered"} :
            Leaves(c, at) /\ (at = "running" => call[c].kind # "question")
    BY <1>1 DEF SayYes
  <2> QED BY <1>0, <1>1, <2>1, LeavesStep DEF SayYes
<1>2. CASE SayNo(c)
  <2>1. PICK at \in {"rejected", "answered"} : Leaves(c, at)
    BY <1>2 DEF SayNo
  <2> QED BY <1>0, <1>2, <2>1, LeavesStep DEF SayNo
<1>3. CASE AllowSession(c)
  BY <1>0, <1>3, LeavesStep DEF AllowSession, Offered, Modes
<1>4. CASE AnswerAuto(c) /\ mode' = "auto" /\ Leaves(c, "running") /\ said' = said \cup {c}
  <2>1. shells' \in Shells
    BY <1>0, <1>4 DEF AnswerAuto, Shells, Leaves
  <2> QED BY <1>0, <1>4, <2>1, LeavesStep DEF AnswerAuto, Offered, Modes
<1>5. CASE AnswerAuto(c) /\ mode' = "manual" /\ UNCHANGED <<shells, line, call, shown, said>>
  <2>1. ApprovalTypes'
    BY <1>5 DEF AnswerAuto, ApprovalInv, ApprovalTypes, Modes
  <2>2. InLine'
    BY <1>5 DEF ApprovalInv, InLine
  <2>3. PersonsAreAsked'
    BY <1>5 DEF AnswerAuto, ApprovalInv, PersonsAreAsked, Person
  <2>4. NothingRunsUnapproved'
    BY <1>5 DEF AnswerAuto, ApprovalInv, NothingRunsUnapproved, Permitted, Person
  <2> QED BY <2>1, <2>2, <2>3, <2>4 DEF ApprovalInv
<1>6. CASE Skip(c)
  BY <1>0, <1>6, LeavesStep DEF Skip, Expired
<1> QED BY <1>1, <1>2, <1>3, <1>4, <1>5, <1>6 DEF Answer, AnswerAuto

LEMMA FinishStep ==
    ASSUME ApprovalInv, NEW c \in Calls, Finish(c)
    PROVE  ApprovalInv'
<1> USE DEF ApprovalInv
<1>1. /\ call[c].at = "running" /\ call' = [call EXCEPT ![c].at = "ran"]
      /\ UNCHANGED <<host, mode, shells, line, age, shown, said>>
  BY DEF Finish
<1>2. /\ call' \in [Calls -> CallRecords]
      /\ call'[c].at = "ran" /\ call'[c].kind = call[c].kind /\ call'[c].under = call[c].under
      /\ \A d \in Calls \ {c} : call'[d] = call[d]
  BY <1>1 DEF ApprovalTypes, CallRecords, CallPlaces
<1>3. ApprovalTypes'
  BY <1>1, <1>2 DEF ApprovalTypes
<1>4. InLine'
  BY <1>1, <1>2 DEF InLine
<1>5. Permitted(c)'
  BY <1>1, <1>2, PermittedStays DEF NothingRunsUnapproved
<1> QED BY <1>1, <1>3, <1>4, <1>5, MovesOn DEF CallPlaces

LEMMA CancelCallStep ==
    ASSUME ApprovalInv, NEW c \in Calls, CancelCall(c)
    PROVE  ApprovalInv'
<1> USE DEF ApprovalInv
<1>1. /\ call' = [call EXCEPT ![c].at = "cancelled"]
      /\ line' = IF call[c].at = "asking" THEN Without(c) ELSE line
      /\ UNCHANGED <<host, mode, shells, age, said>>
  BY DEF CancelCall
<1>2. shown' \in 0..QuestionTimeout
  BY ApprovalAssumption DEF CancelCall, ApprovalTypes
<1>3. /\ call' \in [Calls -> CallRecords]
      /\ call'[c].at = "cancelled"
      /\ \A d \in Calls \ {c} : call'[d] = call[d]
  BY <1>1 DEF ApprovalTypes, CallRecords, CallPlaces
<1>4. ApprovalTypes'
  BY <1>1, <1>2, <1>3 DEF ApprovalTypes
<1>5. InLine'
  <2>1. CASE call[c].at = "asking"
    <3> DEFINE i == CHOOSE i \in DOMAIN line : line[i] = c
    <3>1. i \in DOMAIN line /\ line[i] = c
      BY <2>1 DEF InLine, Holds
    <3>2. line' = RemoveAt(line, i)
      BY <1>1, <2>1 DEF Without
    <3> HIDE DEF i
    <3>3. /\ line' \in Seq(Calls) /\ Once(line')
          /\ \A d : Holds(line', d) <=> (Holds(line, d) /\ d # c)
      BY <3>1, <3>2, Gone DEF InLine
    <3> QED BY <3>3, <1>3 DEF InLine
  <2>2. CASE call[c].at # "asking"
    BY <1>1, <1>3, <2>2 DEF InLine
  <2> QED BY <2>1, <2>2
<1>6. PersonsAreAsked' /\ NothingRunsUnapproved'
  <2>1. "cancelled" \in CallPlaces \ {"asking"} /\ "cancelled" \notin {"running", "ran"}
    BY DEF CallPlaces
  <2>2. said \subseteq said' /\ host' = host
    BY <1>1
  <2> HIDE DEF ApprovalInv
  <2> QED BY <1>1, <2>1, <2>2, MovesOn
<1> QED BY <1>4, <1>5, <1>6

\* The clock and the settings leave every call alone.
LEMMA QuietStep ==
    ASSUME ApprovalInv, ChangeMode \/ Tick \/ UNCHANGED approvalVars
    PROVE  ApprovalInv'
<1> USE DEF ApprovalInv
<1>1. host' = host /\ line' = line /\ call' = call /\ said' = said
  BY DEF ChangeMode, Tick, approvalVars
<1>2. mode' \in Modes /\ shells' \in Shells
  BY DEF ChangeMode, Tick, approvalVars, ApprovalTypes
<1>3. age' \in [Calls -> 0..ResultWindow + 1]
  <2>1. CASE Tick
    <3>1. age' = [c \in Calls |-> IF Waits(c) /\ age[c] <= ResultWindow THEN age[c] + 1 ELSE age[c]]
      BY <2>1 DEF Tick
    <3>2. ASSUME NEW c \in Calls
          PROVE  (IF Waits(c) /\ age[c] <= ResultWindow THEN age[c] + 1 ELSE age[c])
                    \in 0..ResultWindow + 1
      <4>1. age[c] \in 0..ResultWindow + 1
        BY DEF ApprovalTypes
      <4> QED BY <4>1, ApprovalAssumption
    <3> QED BY <3>1, <3>2
  <2>2. CASE ~Tick
    BY <2>2 DEF ChangeMode, approvalVars, ApprovalTypes
  <2> QED BY <2>1, <2>2
<1>4. shown' \in 0..QuestionTimeout
  BY ApprovalAssumption DEF ChangeMode, Tick, approvalVars, ApprovalTypes
<1>5. ApprovalTypes'
  BY <1>1, <1>2, <1>3, <1>4 DEF ApprovalTypes
<1>6. InLine' /\ PersonsAreAsked'
  BY <1>1 DEF InLine, PersonsAreAsked, Person
<1>7. NothingRunsUnapproved'
  BY <1>1 DEF NothingRunsUnapproved, Permitted, Person
<1> QED BY <1>5, <1>6, <1>7

LEMMA ApprovalStep == ApprovalInv /\ [ApprovalNext]_approvalVars => ApprovalInv'
<1> SUFFICES ASSUME ApprovalInv, [ApprovalNext]_approvalVars PROVE ApprovalInv'
  OBVIOUS
<1>1. CASE \E c \in Calls, kind \in CallKinds : Request(c, kind)
  BY <1>1, RequestStep
<1>2. CASE \E c \in Calls : Answer(c) \/ Skip(c)
  BY <1>2, AnswerStep
<1>3. CASE \E c \in Calls : Finish(c)
  BY <1>3, FinishStep
<1>4. CASE \E c \in Calls : CancelCall(c)
  BY <1>4, CancelCallStep
<1>5. CASE ChangeMode \/ Tick \/ UNCHANGED approvalVars
  BY <1>5, QuietStep
<1> QED BY <1>1, <1>2, <1>3, <1>4, <1>5 DEF ApprovalNext

LEMMA ApprovalStarts == ApprovalInit => ApprovalInv
<1> SUFFICES ASSUME ApprovalInit PROVE ApprovalInv
  OBVIOUS
<1>1. ApprovalTypes
  BY ApprovalAssumption DEF ApprovalInit, ApprovalTypes, NoCall, CallRecords, CallPlaces, CallKinds, Modes, Shells
<1>2. line = <<>> /\ \A c \in Calls : call[c].at = "unsent"
  BY DEF ApprovalInit, NoCall
<1>3. InLine
  BY <1>2 DEF InLine, Once, Holds
<1> QED BY <1>1, <1>2, <1>3 DEF ApprovalInv, PersonsAreAsked, NothingRunsUnapproved

\* The state of the broker keeps its types, for any number of calls: the lock's
\* line is the calls that ask, each in it once (_prompt_lock).
THEOREM ApprovalTypeCorrect == ApprovalSpec => []ApprovalTypeOK
<1>1. ApprovalInv => ApprovalTypeOK
  BY ApprovalTyped DEF ApprovalInv
<1> QED BY <1>1, ApprovalStarts, ApprovalStep, PTL DEF ApprovalSpec

\* Whatever modes are chosen while calls wait, and whoever answers which prompt:
\* a tool that runs, or ran, was let through by the policy it met or by a yes to
\* that very call (_authorized).
THEOREM NothingRunsUnasked == ApprovalSpec => []NothingRunsUnapproved
<1>1. ApprovalInv => NothingRunsUnapproved
  BY DEF ApprovalInv
<1> QED BY <1>1, ApprovalStarts, ApprovalStep, PTL DEF ApprovalSpec

-----------------------------------------------------------------------------
(***************************************************************************)
(* Settings.  Mode, effort and model change in one step on the screen and  *)
(* in the agent, except where a turn brings its own (apart) and while a    *)
(* switch to Plan is on its way (switched).                                *)
(***************************************************************************)

Kept == Settings \cup {NotStored}
Turns == [at : {"idle", "hooks", "given", "streaming"}, resumes : BOOLEAN, given : Kept,
          on : Threads \cup {"none"}, switched : BOOLEAN]
Approvals == {"manual", "auto", "yolo"}

SettingsTypes ==
    /\ onScreen \in Settings /\ agent \in Settings
    /\ thread \in Threads
    /\ stored \in [Threads -> Kept] /\ journaled \in [Threads -> Kept]
    /\ running \in Turns
    /\ apart \in BOOLEAN
    /\ approval \in Approvals /\ saved \in {"manual", "auto"}
    /\ acknowledged \subseteq {"auto", "yolo"}

TurnFits ==
    /\ running.at = "given" => running.on \in Threads
    /\ running.switched => running.at = "streaming"

Follows ==
    dialog \notin {"opening", "mounting"} /\ ~apart =>
        /\ agent.effort = onScreen.effort /\ agent.model = onScreen.model
        /\ ~running.switched => agent.mode = onScreen.mode

SettingsInv == SettingsTypes /\ TurnFits /\ Follows /\ YoloIsAcknowledged

\* Settings are their mode, effort and model.
LEMMA SameSettings ==
    ASSUME NEW s \in Settings, NEW t \in Settings,
           s.mode = t.mode, s.effort = t.effort, s.model = t.model
    PROVE  s = t
BY DEF Settings

\* What a setting may become.
LEMMA SettingsChanged ==
    ASSUME NEW s \in Settings
    PROVE  /\ \A m \in AgentModes : [s EXCEPT !.mode = m] \in Settings
           /\ \A e \in Efforts : [s EXCEPT !.effort = e] \in Settings
           /\ \A m \in ChatModels \cup {"none"}, e \in Efforts :
                  /\ [s EXCEPT !.effort = e, !.model = m] \in Settings
                  /\ [s EXCEPT !.model = m, !.effort = e] \in Settings
BY DEF Settings

\* A choice of the user reaches the screen and the agent in the same step.
LEMMA SetStep ==
    ASSUME SettingsInv, NEW settings, NEW told, Set(settings, told),
           settings \in Settings, told \in Settings,
           \/ settings.mode = told.mode /\ settings.effort = onScreen.effort
              /\ settings.model = onScreen.model
              /\ told.effort = agent.effort /\ told.model = agent.model
           \/ settings.effort = told.effort /\ settings.mode = onScreen.mode
              /\ told.mode = agent.mode
              /\ \/ settings.model = told.model
                 \/ settings.model = onScreen.model /\ told.model = agent.model,
           dialog \notin {"opening", "mounting"}
    PROVE  SettingsInv'
<1> USE DEF SettingsInv
<1>1. /\ onScreen' = settings /\ agent' = told
      /\ UNCHANGED <<thread, workspace, stored, journaled, running, approval, acknowledged, saved, apart>>
  BY DEF Set, chatVars, skillVars, permissionVars
<1>2. SettingsTypes'
  BY <1>1 DEF SettingsTypes
<1>3. TurnFits' /\ YoloIsAcknowledged'
  BY <1>1 DEF TurnFits, YoloIsAcknowledged
<1>4. Follows'
  BY <1>1 DEF Follows
<1> QED BY <1>2, <1>3, <1>4

LEMMA UserSets ==
    ASSUME SettingsInv,
           CycleMode \/ CycleEffort \/ ChooseMode \/ ChooseEffort \/ \E direct \in BOOLEAN : ChooseModel(direct)
    PROVE  SettingsInv'
<1>0. onScreen \in Settings /\ agent \in Settings
  BY DEF SettingsInv, SettingsTypes
<1>1. CASE CycleMode
  <2>1. NextMode \in AgentModes
    BY DEF NextMode, AgentModes
  <2> DEFINE s == [onScreen EXCEPT !.mode = NextMode]
             a == [agent EXCEPT !.mode = NextMode]
  <2>2. s \in Settings /\ a \in Settings
    BY <1>0, <2>1, SettingsChanged
  <2>3. /\ s.mode = a.mode /\ s.effort = onScreen.effort /\ s.model = onScreen.model
        /\ a.effort = agent.effort /\ a.model = agent.model
    BY <1>0 DEF Settings
  <2>4. Set(s, a) /\ dialog \notin {"opening", "mounting"}
    BY <1>1 DEF CycleMode
  <2> HIDE DEF s, a
  <2> QED BY <2>2, <2>3, <2>4, SetStep
<1>2. CASE CycleEffort
  <2>1. NextEffort \in Efforts
    BY DEF NextEffort, Efforts
  <2> DEFINE s == [onScreen EXCEPT !.effort = NextEffort]
             a == [agent EXCEPT !.effort = NextEffort]
  <2>2. s \in Settings /\ a \in Settings
    BY <1>0, <2>1, SettingsChanged
  <2>3. /\ s.effort = a.effort /\ s.mode = onScreen.mode /\ s.model = onScreen.model
        /\ a.mode = agent.mode /\ a.model = agent.model
    BY <1>0 DEF Settings
  <2>4. Set(s, a) /\ dialog \notin {"opening", "mounting"}
    BY <1>2 DEF CycleEffort
  <2> HIDE DEF s, a
  <2> QED BY <2>2, <2>3, <2>4, SetStep
<1>3. CASE ChooseMode
  <2> PICK m \in AgentModes : Set([onScreen EXCEPT !.mode = m], [agent EXCEPT !.mode = m])
    BY <1>3 DEF ChooseMode
  <2> DEFINE s == [onScreen EXCEPT !.mode = m]
             a == [agent EXCEPT !.mode = m]
  <2>2. s \in Settings /\ a \in Settings
    BY <1>0, SettingsChanged
  <2>3. /\ s.mode = a.mode /\ s.effort = onScreen.effort /\ s.model = onScreen.model
        /\ a.effort = agent.effort /\ a.model = agent.model
    BY <1>0 DEF Settings
  <2>4. Set(s, a) /\ dialog \notin {"opening", "mounting"}
    BY <1>3 DEF ChooseMode
  <2> HIDE DEF s, a
  <2> QED BY <2>2, <2>3, <2>4, SetStep
<1>4. CASE ChooseEffort
  <2> PICK effort \in Efforts : Set([onScreen EXCEPT !.effort = effort], [agent EXCEPT !.effort = effort])
    BY <1>4 DEF ChooseEffort
  <2> DEFINE s == [onScreen EXCEPT !.effort = effort]
             a == [agent EXCEPT !.effort = effort]
  <2>2. s \in Settings /\ a \in Settings
    BY <1>0, SettingsChanged
  <2>3. /\ s.effort = a.effort /\ s.mode = onScreen.mode /\ s.model = onScreen.model
        /\ a.mode = agent.mode /\ a.model = agent.model
    BY <1>0 DEF Settings
  <2>4. Set(s, a) /\ dialog \notin {"opening", "mounting"}
    BY <1>4 DEF ChooseEffort
  <2> HIDE DEF s, a
  <2> QED BY <2>2, <2>3, <2>4, SetStep
<1>5. CASE \E direct \in BOOLEAN : ChooseModel(direct)
  <2> PICK model \in ChatModels :
          Set([onScreen EXCEPT !.model = model, !.effort = "intelligence"], WithModel(agent, model))
    BY <1>5 DEF ChooseModel
  <2> DEFINE s == [onScreen EXCEPT !.model = model, !.effort = "intelligence"]
             a == [agent EXCEPT !.model = model, !.effort = "intelligence"]
  <2>1. "intelligence" \in Efforts
    BY DEF Efforts
  <2>2. s \in Settings /\ a \in Settings
    BY <1>0, <2>1, SettingsChanged
  <2>3. /\ s.effort = a.effort /\ s.mode = onScreen.mode /\ s.model = a.model
        /\ a.mode = agent.mode
    BY <1>0 DEF Settings
  <2>4. Set(s, a) /\ dialog \notin {"opening", "mounting"}
    BY <1>5 DEF ChooseModel, WithModel
  <2> HIDE DEF s, a
  <2> QED BY <2>2, <2>3, <2>4, SetStep
<1> QED BY <1>1, <1>2, <1>3, <1>4, <1>5

\* Steps that change neither settings nor the turn: dialogs, chats and skills.
LEMMA DialogSteps ==
    ASSUME SettingsInv,
           SkillsResolved \/ DialogCloses \/ (\E kind \in {"mode", "effort", "model", "cwd", "approval"} : Opens(kind))
             \/ (\E t \in Threads : OpenThread(t)) \/ UNCHANGED settingsVars
    PROVE  SettingsInv'
<1> USE DEF SettingsInv
<1>1. /\ UNCHANGED <<onScreen, agent, stored, journaled, running, approval, acknowledged, saved, apart>>
      /\ thread' \in Threads
  BY DEF SkillsResolved, DialogCloses, Opens, OpenThread, settingsVars, chatVars, skillVars,
         permissionVars, SettingsTypes
<1>2. /\ dialog' = "mounting" => dialog = "mounting"
      /\ dialog = "mounting" => dialog' = "mounting"
      /\ dialog = "opening" => dialog' = "opening"
  BY DEF SkillsResolved, DialogCloses, Opens, OpenThread, settingsVars
<1>3. SettingsTypes' /\ TurnFits'
  BY <1>1 DEF SettingsTypes, TurnFits
<1>4. Follows' /\ YoloIsAcknowledged'
  BY <1>1, <1>2 DEF Follows, YoloIsAcknowledged
<1> QED BY <1>3, <1>4

\* A chat that is opened sets the screen and the agent alike.
LEMMA HydrateStep ==
    ASSUME SettingsInv, Mount \/ Hydrate
    PROVE  SettingsInv'
<1> USE DEF SettingsInv
<1>1. Restored(thread) \in Settings
  <2>1. stored[thread] \in Kept /\ onScreen.mode \in AgentModes
    BY DEF SettingsTypes, Settings
  <2> QED BY <2>1 DEF Restored, Kept, Settings, Efforts
<1>2. /\ onScreen' = Restored(thread) /\ agent' = Restored(thread) /\ apart' = FALSE
      /\ UNCHANGED <<thread, stored, journaled, running, acknowledged, saved>>
  BY DEF Mount, Hydrate, Hydrates, ToAgent, chatVars
<1>3. approval' \in Approvals /\ (approval' = "yolo" => "yolo" \in acknowledged)
  BY DEF Mount, Hydrate, Asked, SettingsTypes, Approvals, YoloIsAcknowledged
<1>4. SettingsTypes'
  BY <1>1, <1>2, <1>3 DEF SettingsTypes
<1>5. TurnFits' /\ Follows' /\ YoloIsAcknowledged'
  BY <1>2, <1>3 DEF TurnFits, Follows, YoloIsAcknowledged
<1> QED BY <1>4, <1>5

LEMMA FolderStep ==
    ASSUME SettingsInv, ChooseFolder
    PROVE  SettingsInv'
<1> USE DEF SettingsInv
<1>1. /\ onScreen' = [onScreen EXCEPT !.effort = "balanced", !.model = "none"]
      /\ agent' = [agent EXCEPT !.effort = "balanced", !.model = "none"]
      /\ thread' \in Threads /\ dialog = "cwd" /\ dialog' = "none"
      /\ UNCHANGED <<stored, journaled, running, approval, acknowledged, saved, apart>>
  BY DEF ChooseFolder, permissionVars
<1>2. onScreen' \in Settings /\ agent' \in Settings
  BY <1>1, SettingsChanged DEF SettingsTypes, Efforts
<1>3. /\ onScreen'.effort = agent'.effort /\ onScreen'.model = agent'.model
      /\ onScreen'.mode = onScreen.mode /\ agent'.mode = agent.mode
  BY <1>1 DEF SettingsTypes, Settings
<1>4. SettingsTypes'
  BY <1>1, <1>2 DEF SettingsTypes
<1>5. TurnFits' /\ Follows' /\ YoloIsAcknowledged'
  BY <1>1, <1>3 DEF TurnFits, Follows, YoloIsAcknowledged
<1> QED BY <1>4, <1>5

\* The approval modes: a mode the user has to hear of first waits for the answer.
LEMMA ApprovalSteps ==
    ASSUME SettingsInv,
           CycleApproval \/ ChooseApproval \/ \E accepts \in BOOLEAN : Acknowledge(accepts)
    PROVE  SettingsInv'
<1> USE DEF SettingsInv
<1>1. /\ UNCHANGED <<onScreen, agent, thread, stored, journaled, running, apart>>
      /\ dialog \notin {"opening", "mounting"} /\ dialog' # "mounting"
      /\ acknowledged \subseteq acknowledged' /\ acknowledged' \subseteq {"auto", "yolo"}
      /\ approval' \in Approvals /\ saved' \in {"manual", "auto"}
      /\ approval' = "yolo" => "yolo" \in acknowledged'
  <2>1. CASE \E m \in Approvals : Activate(m) /\ acknowledged' = acknowledged
                 /\ dialog \notin {"opening", "mounting"}
                 /\ UNCHANGED <<onScreen, agent, thread, stored, journaled, running, apart>>
    BY <2>1 DEF Activate, Activated, Questioned, SettingsTypes, YoloIsAcknowledged, Approvals
  <2>2. CASE CycleApproval
    <3>1. NextApproval \in Approvals
      BY DEF NextApproval, Approvals
    <3> QED BY <2>1, <2>2, <3>1 DEF CycleApproval, chatVars
  <2>3. CASE ChooseApproval
    BY <2>1, <2>3 DEF ChooseApproval, chatVars, Approvals
  <2>4. CASE \E accepts \in BOOLEAN : Acknowledge(accepts)
    BY <2>4 DEF Acknowledge, Activated, SettingsTypes, YoloIsAcknowledged, Approvals, chatVars
  <2> QED BY <2>2, <2>3, <2>4
<1>2. SettingsTypes'
  BY <1>1 DEF SettingsTypes
<1>3. TurnFits' /\ Follows' /\ YoloIsAcknowledged'
  BY <1>1 DEF TurnFits, Follows, YoloIsAcknowledged
<1> QED BY <1>2, <1>3

LEMMA BuildStep ==
    ASSUME SettingsInv, Build
    PROVE  SettingsInv'
<1> USE DEF SettingsInv
<1>1. /\ onScreen' = [onScreen EXCEPT !.mode = "agent"]
      /\ agent' = [agent EXCEPT !.mode = "agent"]
      /\ dialog = "none" /\ dialog' = "none"
      /\ UNCHANGED <<thread, stored, journaled, approval, acknowledged, saved, apart>>
      /\ running' = IF running = Idle THEN [Idle EXCEPT !.at = "hooks"] ELSE running
  BY DEF Build, chatVars, permissionVars
<1>2. onScreen' \in Settings /\ agent' \in Settings
  BY <1>1, SettingsChanged DEF SettingsTypes, AgentModes
<1>3. /\ onScreen'.mode = agent'.mode
      /\ onScreen'.effort = onScreen.effort /\ agent'.effort = agent.effort
      /\ onScreen'.model = onScreen.model /\ agent'.model = agent.model
  BY <1>1 DEF SettingsTypes, Settings
<1>4. running' \in Turns /\ TurnFits'
  <2>1. CASE running = Idle
    BY <1>1, <2>1 DEF Idle, Turns, Kept, TurnFits
  <2>2. CASE running # Idle
    BY <1>1, <2>2 DEF SettingsTypes, TurnFits
  <2> QED BY <2>1, <2>2
<1>5. SettingsTypes'
  BY <1>1, <1>2, <1>4 DEF SettingsTypes
<1>6. Follows' /\ YoloIsAcknowledged'
  BY <1>1, <1>3 DEF Follows, YoloIsAcknowledged
<1> QED BY <1>4, <1>5, <1>6

\* A turn that starts reads the screen; nothing else changes yet.
LEMMA StartSteps ==
    ASSUME SettingsInv, (\E resumes \in BOOLEAN : Starts(resumes)) \/ Given
    PROVE  SettingsInv'
<1> USE DEF SettingsInv
<1>1. UNCHANGED <<onScreen, agent, thread, dialog, stored, journaled, approval, acknowledged, saved, apart>>
  BY DEF Starts, Given, untouched, permissionVars
<1>2. running' \in Turns /\ TurnFits' /\ running'.switched = running.switched
  <2>1. CASE \E resumes \in BOOLEAN : Starts(resumes)
    BY <2>1 DEF Starts, Idle, Turns, Kept, TurnFits
  <2>2. CASE Given
    <3>1. /\ running.at = "hooks" /\ running \in Turns /\ onScreen \in Settings /\ thread \in Threads
          /\ running' = [running EXCEPT !.at = "given", !.on = thread,
                            !.given = IF running.resumes THEN NotStored ELSE onScreen]
      BY <2>2 DEF Given, SettingsTypes
    <3>2. (IF running.resumes THEN NotStored ELSE onScreen) \in Kept
      BY <3>1 DEF Kept
    <3> QED BY <3>1, <3>2 DEF Turns, TurnFits
  <2> QED BY <2>1, <2>2
<1>3. SettingsTypes'
  BY <1>1, <1>2 DEF SettingsTypes
<1>4. Follows' /\ YoloIsAcknowledged'
  BY <1>1, <1>2 DEF Follows, YoloIsAcknowledged
<1> QED BY <1>2, <1>3, <1>4

\* The node gives the agent the settings of its turn, and says when they are others.
LEMMA NodeGives ==
    ASSUME SettingsInv, NodeStarts \/ NothingToResume
    PROVE  SettingsInv'
<1> USE DEF SettingsInv
<1>1. /\ UNCHANGED <<onScreen, thread, dialog, approval, acknowledged, saved>>
      /\ running.at = "given" /\ apart' = (agent' # onScreen)
  BY DEF NodeStarts, NothingToResume, untouched, permissionVars
<1>2. running.on \in Threads /\ ~running.switched /\ running \in Turns
  BY <1>1 DEF TurnFits, SettingsTypes
<1>3. /\ agent' \in Settings /\ stored' \in [Threads -> Kept] /\ journaled' \in [Threads -> Kept]
      /\ running' \in Turns /\ TurnFits'
  <2>1. CASE NodeStarts
    <3> DEFINE t == running.on
               runs == IF running.resumes THEN journaled[t] ELSE running.given
    <3>1. runs \in Kept
      BY <1>2 DEF SettingsTypes, Turns
    <3>2. /\ runs # NotStored /\ agent' = runs
          /\ stored' = IF running.resumes THEN stored ELSE [stored EXCEPT ![t] = runs]
          /\ journaled' = [journaled EXCEPT ![t] = runs]
          /\ running' = [running EXCEPT !.at = "streaming"]
      BY <2>1 DEF NodeStarts
    <3>3. running' \in Turns /\ TurnFits'
      BY <1>2, <3>2 DEF Turns, TurnFits
    <3> HIDE DEF runs, t
    <3>4. agent' \in Settings
      BY <3>1, <3>2 DEF Kept
    <3>5. stored' \in [Threads -> Kept] /\ journaled' \in [Threads -> Kept]
      BY <3>1, <3>2 DEF SettingsTypes
    <3> QED BY <3>3, <3>4, <3>5
  <2>2. CASE NothingToResume
    <3>1. agent' \in Settings
      BY <1>2, <2>2 DEF NothingToResume, SettingsTypes, Kept
    <3>2. running' = Idle /\ stored' = stored /\ journaled' = journaled
      BY <2>2 DEF NothingToResume
    <3>3. running' \in Turns /\ TurnFits'
      BY <3>2 DEF Idle, Turns, Kept, TurnFits
    <3> QED BY <3>1, <3>2, <3>3 DEF SettingsTypes
  <2> QED BY <2>1, <2>2
<1>4. SettingsTypes'
  BY <1>1, <1>3 DEF SettingsTypes
<1>5. Follows' /\ YoloIsAcknowledged'
  BY <1>1 DEF Follows, YoloIsAcknowledged
<1> QED BY <1>3, <1>4, <1>5

\* A switch to Plan comes in two steps, and the turn does not end between them
\* unless it is cut short.
LEMMA PlanSteps ==
    ASSUME SettingsInv, PlanSwitch \/ PlanShown
    PROVE  SettingsInv'
<1> USE DEF SettingsInv
<1>0. onScreen \in Settings /\ agent \in Settings /\ running \in Turns
  BY DEF SettingsTypes
<1>1. /\ UNCHANGED <<thread, dialog, stored, journaled, approval, acknowledged, saved, apart>>
      /\ agent' = [agent EXCEPT !.mode = "plan"]
      /\ \/ onScreen' = onScreen /\ running.at = "streaming"
            /\ running' = [running EXCEPT !.switched = TRUE]
         \/ onScreen' = [onScreen EXCEPT !.mode = "plan"]
            /\ running' = [running EXCEPT !.switched = FALSE]
  BY DEF PlanSwitch, PlanShown, untouched, permissionVars
<1>2. onScreen' \in Settings /\ agent' \in Settings
  BY <1>0, <1>1, SettingsChanged DEF AgentModes
<1>3. /\ agent'.mode = "plan" /\ agent'.effort = agent.effort /\ agent'.model = agent.model
      /\ onScreen'.effort = onScreen.effort /\ onScreen'.model = onScreen.model
  BY <1>0, <1>1 DEF Settings
<1>4. /\ running' \in Turns /\ TurnFits'
      /\ ~running'.switched => onScreen'.mode = "plan"
  BY <1>0, <1>1 DEF Turns, TurnFits, Settings
<1>5. SettingsTypes'
  BY <1>1, <1>2, <1>4 DEF SettingsTypes
<1>6. Follows' /\ YoloIsAcknowledged'
  BY <1>1, <1>3, <1>4 DEF Follows, YoloIsAcknowledged
<1> QED BY <1>4, <1>5, <1>6

LEMMA EndSteps ==
    ASSUME SettingsInv, Commits \/ \E keeps \in BOOLEAN : CutShort(keeps)
    PROVE  SettingsInv'
<1> USE DEF SettingsInv
<1>1. /\ UNCHANGED <<onScreen, agent, thread, dialog, approval, acknowledged, saved>>
      /\ running' = Idle
      /\ \/ ~running.switched /\ apart' = apart
         \/ apart' = (apart \/ running.switched)
  BY DEF Commits, CutShort, untouched, permissionVars
<1>2. stored' \in [Threads -> Kept] /\ journaled' \in [Threads -> Kept]
  BY DEF Commits, CutShort, SettingsTypes, Kept
<1>3. running' \in Turns /\ TurnFits' /\ ~running'.switched
  BY <1>1 DEF Idle, Turns, Kept, TurnFits
<1>4. apart \in BOOLEAN /\ running.switched \in BOOLEAN
  BY DEF SettingsTypes, Turns
<1>5. apart' \in BOOLEAN /\ (~apart' => ~apart /\ ~running.switched)
  BY <1>1, <1>4
<1>6. SettingsTypes'
  BY <1>1, <1>2, <1>3, <1>5 DEF SettingsTypes
<1>7. Follows' /\ YoloIsAcknowledged'
  BY <1>1, <1>3, <1>5 DEF Follows, YoloIsAcknowledged
<1> QED BY <1>3, <1>6, <1>7

LEMMA SettingsStep == SettingsInv /\ [SettingsNext]_settingsVars => SettingsInv'
BY UserSets, DialogSteps, HydrateStep, FolderStep, ApprovalSteps, BuildStep, StartSteps,
   NodeGives, PlanSteps, EndSteps DEF SettingsNext, Command, TurnStep

LEMMA SettingsStart == SettingsInit => SettingsInv
<1> SUFFICES ASSUME SettingsInit PROVE SettingsInv
  OBVIOUS
<1>1. SettingsTypes
  BY DEF SettingsInit, SettingsTypes, Kept, Idle, Turns, Approvals
<1>2. TurnFits /\ Follows /\ YoloIsAcknowledged
  BY DEF SettingsInit, TurnFits, Follows, YoloIsAcknowledged, Idle
<1> QED BY <1>1, <1>2 DEF SettingsInv

\* The status bar shows what the agent sends, and YOLO was agreed to, for any
\* chats, models and folders, in every order of keys, dialogs and turns.
THEOREM SettingsStayInStep == SettingsSpec => []SettingsAgree
<1>1. SettingsInv => SettingsAgree
  BY SameSettings DEF SettingsInv, SettingsTypes, Follows, SettingsAgree, AgentFollowsScreen
<1> QED BY <1>1, SettingsStart, SettingsStep, PTL DEF SettingsSpec

-----------------------------------------------------------------------------
(***************************************************************************)
(* The ACP session, of a client that waits for an answer before it sends   *)
(* the next prompt (Overlap = FALSE): the prompts come in turn, and the    *)
(* flags of the session speak of the turn that runs.                       *)
(***************************************************************************)

Requests ==
    [at : {"unsent", "announcing", "local", "turn", "limits", "answered"},
     kind : Kinds,
     answer : {"none", "busy", "end_turn", "cancelled", "aborted", "usage_limit",
               "max_turn_requests", "error"}]
TurnTasks ==
    [at : {"none", "new", "open", "stream", "asking", "closing", "done"},
     hit : BOOLEAN,
     how : {"none", "completed", "stopped", "failed", "limit", "paused", "raised", "cancelled"},
     resumes : BOOLEAN]
Stops == [at : {"unsent", "hosted", "tools", "strike", "done"}, aim : Prompts \cup {NoTurn}]

\* The ends of a turn whose task sent the size of the checkpoint.
Sent == {"completed", "failed", "limit", "paused"}

\* The turn is that of the prompt in hand.
PromptFits(p) ==
    /\ req[p].at \in {"unsent", "announcing", "local"} => task[p].at = "none"
    /\ req[p].at \in {"turn", "limits"} <=> turn = p
    /\ req[p].at = "turn" => task[p].at # "none"
    /\ req[p].at = "limits" =>
         task[p].at = "done" /\ task[p].how \in {"failed", "limit", "paused", "raised"} /\ ~cancelled
    /\ Answered(p) => task[p].at \in {"none", "done"}
    /\ ~Answered(p) => req[p].answer = "none"
    /\ task[p].at = "closing" => task[p].how \in {"completed", "stopped", "failed", "limit", "paused"}

\* Whoever was sent before is answered.
InTurn ==
    /\ \A p, q \in Prompts : p < q /\ req[q].at # "unsent" => Answered(p)
    /\ \A p \in Prompts : PromptFits(p)

\* session.cancelled is about the turn that runs.
Wanted ==
    /\ turn # NoTurn => (cancelled <=> turn \in wanted)
    /\ \A p \in wanted : req[p].at \in {"turn", "answered"}

\* session.unfinished is set by a turn that ended, and kept its journal.
Unfinished ==
    /\ unfinished => journal
    /\ turn # NoTurn =>
        /\ task[turn].at \in {"new", "open", "stream", "asking"} => ~unfinished
        /\ task[turn].at = "done" /\ task[turn].how = "raised" => ~unfinished

\* The last turn that ended by itself left the meter at the size of the checkpoint.
Metered ==
    \A p \in Prompts :
        /\ /\ task[p].at = "done" /\ task[p].how \in Sent
           /\ \A q \in Prompts : q > p => task[q].at = "none"
           => meter = measured
        /\ Answered(p) /\ req[p].answer \in {"end_turn", "max_turn_requests"} /\ task[p].at = "done"
             => task[p].how \in Sent

AcpInv ==
    /\ AcpTypeOK /\ InTurn /\ Wanted /\ Unfinished /\ Metered
    /\ StopReasonFollowsCancel /\ AnswersMatchTheThread

LEMMA AcpTypes ==
    AcpTypeOK <=>
        /\ announced \in BOOLEAN /\ cancelled \in BOOLEAN /\ unfinished \in BOOLEAN
        /\ turn \in Prompts \cup {NoTurn} /\ runtime \in Prompts \cup {NoTurn}
        /\ req \in [Prompts -> Requests] /\ task \in [Prompts -> TurnTasks]
        /\ stop \in [Cancels -> Stops]
        /\ asked \subseteq Prompts /\ journal \in BOOLEAN
        /\ measured \in 0..MaxUsage /\ known \in 0..MaxUsage /\ meter \in 0..MaxUsage
        /\ wanted \subseteq Prompts /\ struck \subseteq Prompts
BY DEF AcpTypeOK, Requests, TurnTasks, Stops

LEMMA AcpNumbers ==
    /\ \A p \in Prompts : p \in Nat /\ p # NoTurn
    /\ \A p, q \in Prompts : p < q \/ p = q \/ q < p
    /\ \A p, q \in Prompts : q > p <=> p < q
BY AcpAssumption DEF Prompts, NoTurn

\* The prompt in hand: those before it are answered, those after it unsent.
LEMMA InHand ==
    ASSUME AcpInv, NEW p \in Prompts, req[p].at \notin {"unsent", "answered"}
    PROVE  \A q \in Prompts \ {p} :
              /\ q < p => Answered(q) /\ task[q].at \in {"none", "done"}
              /\ q > p => req[q].at = "unsent" /\ task[q].at = "none"
BY AcpNumbers DEF AcpInv, InTurn, PromptFits, Answered

LEMMA LiveIsTurn ==
    ASSUME AcpInv, NEW p \in Prompts, task[p].at \notin {"none", "done"}
    PROVE  req[p].at = "turn" /\ turn = p
<1>1. req[p] \in Requests
  BY AcpTypes DEF AcpInv
<1>2. req[p].at \in {"unsent", "announcing", "local", "turn", "limits", "answered"}
  BY <1>1 DEF Requests
<1> QED BY <1>2 DEF AcpInv, InTurn, PromptFits, Answered

\* A step of the turn task.
LEMMA TaskMoves ==
    ASSUME AcpInv, NEW p \in Prompts, task[p].at \notin {"none", "done"},
           NEW t \in TurnTasks, task' = [task EXCEPT ![p] = t], t.at # "none",
           AcpTypeOK', UNCHANGED <<req, turn, cancelled, wanted>>,
           unfinished' => journal',
           t.at \in {"new", "open", "stream", "asking"} => ~unfinished',
           t.at = "closing" => t.how \in {"completed", "stopped", "failed", "limit", "paused"},
           t.at = "done" /\ t.how = "raised" => ~unfinished',
           t.at = "done" /\ t.how \in Sent => meter' = measured',
           t.at \in {"new", "open"} => task[p].at \in {"new", "open"} /\ journal' = journal
    PROVE  AcpInv'
<1>1. req[p].at = "turn" /\ turn = p
  BY LiveIsTurn
<1>2. \A q \in Prompts \ {p} :
          /\ q < p => Answered(q) /\ task[q].at \in {"none", "done"}
          /\ q > p => req[q].at = "unsent" /\ task[q].at = "none"
  BY <1>1, InHand
<1>3. task'[p] = t /\ \A q \in Prompts \ {p} : task'[q] = task[q]
  BY AcpTypes DEF AcpInv
<1>4. \A q \in Prompts \ {p} : q < p \/ q > p
  BY AcpNumbers
<1>5. \A q \in Prompts : Answered(q)' <=> Answered(q)
  BY DEF Answered
<1>6. InTurn'
  BY <1>1, <1>3, <1>5 DEF AcpInv, InTurn, PromptFits, Answered
<1>7. Wanted'
  BY DEF AcpInv, Wanted
<1>8. Unfinished'
  BY <1>1, <1>3 DEF Unfinished
<1>9. Metered'
  <2>1. ASSUME NEW q \in Prompts, task'[q].at = "done", task'[q].how \in Sent,
               \A r \in Prompts : r > q => task'[r].at = "none"
        PROVE  meter' = measured'
    <3>1. q = p
      BY <1>2, <1>3, <1>4, <2>1, AcpNumbers
    <3> QED BY <2>1, <3>1, <1>3
  <2>2. ASSUME NEW q \in Prompts, Answered(q)', req'[q].answer \in {"end_turn", "max_turn_requests"},
               task'[q].at = "done"
        PROVE  task'[q].how \in Sent
    <3>1. q # p
      BY <1>1, <1>5, <2>2 DEF Answered
    <3> QED BY <2>2, <3>1, <1>3, <1>5 DEF AcpInv, Metered
  <2> QED BY <2>1, <2>2 DEF Metered
<1>10. StopReasonFollowsCancel'
  BY <1>5 DEF AcpInv, StopReasonFollowsCancel, Answered
<1>11. AnswersMatchTheThread'
  <2>1. ASSUME NEW q \in Prompts, req'[q].answer # "none"
        PROVE  q < p /\ p > q
    BY <1>1, <1>2, <1>4, <2>1, AcpNumbers DEF AcpInv, InTurn, PromptFits, Answered
  <2>2. ASSUME NEW q \in Prompts, req'[q].answer = "max_turn_requests",
               \A r \in Prompts : r > q => task'[r].at \in {"none", "new", "open"}
        PROVE  journal'
    <3>1. t.at \in {"new", "open"}
      BY <1>3, <2>1, <2>2
    <3>2. journal' = journal /\ \A r \in Prompts : r > q => task[r].at \in {"none", "new", "open"}
      BY <1>3, <2>2, <3>1
    <3> QED BY <2>2, <3>2 DEF AcpInv, AnswersMatchTheThread
  <2>3. ASSUME NEW q \in Prompts, req'[q].answer \in {"end_turn", "max_turn_requests"},
               \A r \in Prompts : r > q => task'[r].at = "none"
        PROVE  FALSE
    BY <1>3, <2>1, <2>3
  <2> QED BY <2>2, <2>3 DEF AnswersMatchTheThread
<1> QED BY <1>6, <1>7, <1>8, <1>9, <1>10, <1>11 DEF AcpInv

LEMMA TaskSteps ==
    ASSUME AcpInv, NEW p \in Prompts, TaskStep(p)
    PROVE  AcpInv'
<1>0. /\ task[p] \in TurnTasks /\ task \in [Prompts -> TurnTasks]
      /\ measured \in 0..MaxUsage /\ known \in 0..MaxUsage /\ meter \in 0..MaxUsage
      /\ asked \subseteq Prompts /\ journal \in BOOLEAN /\ unfinished \in BOOLEAN
      /\ AcpTypeOK
  BY AcpTypes DEF AcpInv
<1> DEFINE
      Moves(t) ==
          /\ t \in TurnTasks /\ t.at # "none" /\ task' = [task EXCEPT ![p] = t]
          /\ task[p].at \notin {"none", "done"}
          /\ UNCHANGED <<announced, cancelled, turn, req, stop, history>>
<1>1. ASSUME NEW t, Moves(t), runtime' \in Prompts \cup {NoTurn}, unfinished' \in BOOLEAN,
             asked' \subseteq Prompts, journal' \in BOOLEAN,
             measured' \in 0..MaxUsage, known' \in 0..MaxUsage, meter' \in 0..MaxUsage
      PROVE  AcpTypeOK'
  <2>1. task' \in [Prompts -> TurnTasks]
    BY <1>0, <1>1
  <2> QED BY <1>0, <1>1, <2>1 DEF AcpTypeOK, TurnTasks, history
<1>2. task[p].at # "none" /\ turn = p => (task[p].at \in {"new", "open", "stream", "asking"} => ~unfinished)
  BY AcpNumbers DEF AcpInv, Unfinished
<1>3. task[p].at \notin {"none", "done"} => turn = p
  BY LiveIsTurn
<1>4. unfinished => journal
  BY DEF AcpInv, Unfinished
<1>5. CASE TaskOpens(p)
  <2> DEFINE t == [task[p] EXCEPT !.at = "open"]
  <2>1. /\ Moves(t) /\ task[p].at = "new" /\ t.at = "open" /\ runtime' = p
        /\ UNCHANGED <<unfinished, asked, journal, measured, known, meter>>
    BY <1>0, <1>5 DEF TaskOpens, At, TurnTasks, usage
  <2>2. AcpTypeOK'
    BY <1>0, <1>1, <2>1
  <2> HIDE DEF t
  <2> QED BY <1>2, <1>3, <1>4, <2>1, <2>2, TaskMoves DEF history
<1>6. CASE TaskDecides(p)
  <2>1. /\ task[p].at = "open" /\ UNCHANGED <<session, usage, announced, cancelled, turn, req, stop, history>>
        /\ asked' \subseteq Prompts /\ journal' \in BOOLEAN
    BY <1>0, <1>6 DEF TaskDecides, At, session
  <2>2. PICK t \in TurnTasks : /\ task' = [task EXCEPT ![p] = t]
                               /\ \/ t.at = "closing" /\ t.how = "failed" /\ journal' = journal
                                  \/ t.at = "stream" /\ journal' = TRUE
    <3>1. CASE req[p].kind = "resume" /\ ~journal
      <4> DEFINE u == [task[p] EXCEPT !.at = "closing", !.how = "failed"]
      <4>1. u \in TurnTasks /\ u.at = "closing" /\ u.how = "failed"
        BY <1>0 DEF TurnTasks
      <4>2. task' = [task EXCEPT ![p] = u] /\ journal' = journal
        BY <1>0, <1>6, <3>1 DEF TaskDecides
      <4> QED BY <4>1, <4>2
    <3>2. CASE ~(req[p].kind = "resume" /\ ~journal)
      <4> DEFINE u == [task[p] EXCEPT !.at = "stream", !.resumes = (req[p].kind # "text" /\ journal)]
      <4>1. u \in TurnTasks /\ u.at = "stream"
        BY <1>0 DEF TurnTasks
      <4>2. task' = [task EXCEPT ![p] = u] /\ journal' = TRUE
        BY <1>0, <1>6, <3>2 DEF TaskDecides
      <4> QED BY <4>1, <4>2
    <3> QED BY <3>1, <3>2
  <2>3. Moves(t) /\ UNCHANGED <<runtime, unfinished, measured, known, meter>>
    BY <2>1, <2>2 DEF session, usage
  <2>4. AcpTypeOK'
    BY <1>0, <1>1, <2>1, <2>3 DEF AcpTypeOK
  <2> QED BY <1>2, <1>3, <1>4, <2>1, <2>2, <2>3, <2>4, TaskMoves DEF history
<1>7. CASE ToolAsks(p) \/ ToolAllowed(p)
  <2>1. PICK at \in {"stream", "asking"} : task' = [task EXCEPT ![p].at = at]
    BY <1>7 DEF ToolAsks, ToolAllowed
  <2>2. /\ task[p].at \in {"stream", "asking"}
        /\ UNCHANGED <<announced, cancelled, turn, runtime, unfinished, req, stop, asked, journal,
                       measured, known, meter, history>>
    BY <1>7 DEF ToolAsks, ToolAllowed, At, session, usage
  <2> DEFINE t == [task[p] EXCEPT !.at = at]
  <2>3. t \in TurnTasks /\ t.at = at /\ task' = [task EXCEPT ![p] = t]
    BY <1>0, <2>1 DEF TurnTasks
  <2> HIDE DEF t
  <2>4. AcpTypeOK'
    BY <1>0, <1>1, <2>1, <2>2, <2>3 DEF AcpTypeOK
  <2> QED BY <1>2, <1>3, <1>4, <2>1, <2>2, <2>3, <2>4, TaskMoves DEF history
<1>8. CASE UsageReported(p)
  <2>1. /\ task[p].at \in {"stream", "asking"} /\ task' = task
        /\ UNCHANGED <<announced, cancelled, turn, runtime, unfinished, req, stop, asked, journal, history>>
        /\ measured' \in 0..MaxUsage /\ known' \in 0..MaxUsage /\ meter' \in 0..MaxUsage
    BY <1>0, <1>8 DEF UsageReported, At, session
  <2>2. PICK t \in TurnTasks : t.at \in {"stream", "asking"} /\ task' = [task EXCEPT ![p] = t]
    BY <1>0, <2>1
  <2>3. AcpTypeOK'
    BY <1>0, <1>1, <2>1, <2>2 DEF AcpTypeOK
  <2>4. ~unfinished'
    BY <1>2, <1>3, <2>1
  <2>5. task[p].at \notin {"none", "done"} /\ unfinished' = unfinished /\ journal' = journal
        /\ UNCHANGED <<req, turn, cancelled, wanted>>
    BY <2>1 DEF history
  <2> QED BY <1>4, <2>2, <2>3, <2>4, <2>5, TaskMoves
<1>9. CASE \E how \in {"completed", "stopped", "failed", "limit", "paused"} : StreamEnds(p, how)
  <2> PICK how \in {"completed", "stopped", "failed", "limit", "paused"} : StreamEnds(p, how)
    BY <1>9
  <2>1. /\ task[p].at \in {"stream", "asking"}
        /\ task' = [task EXCEPT ![p].at = "closing", ![p].how = how]
        /\ journal' \in KeptBy(how)
        /\ unfinished' = IF how \in {"paused", "limit", "failed"} THEN how = "paused" ELSE unfinished
        /\ UNCHANGED <<announced, cancelled, turn, runtime, req, stop, asked, measured, known, meter, history>>
    BY DEF StreamEnds, At, usage
  <2> DEFINE t == [task[p] EXCEPT !.at = "closing", !.how = how]
  <2>2. t \in TurnTasks /\ t.at = "closing" /\ t.how = how /\ task' = [task EXCEPT ![p] = t]
    BY <1>0, <2>1 DEF TurnTasks
  <2>3. ~unfinished
    BY <1>2, <1>3, <2>1
  <2>4. journal' \in BOOLEAN /\ unfinished' \in BOOLEAN /\ (unfinished' => journal')
    BY <1>0, <2>1, <2>3 DEF KeptBy
  <2> HIDE DEF t
  <2>5. AcpTypeOK'
    BY <1>0, <1>1, <2>1, <2>2, <2>4 DEF AcpTypeOK
  <2> QED BY <2>1, <2>2, <2>4, <2>5, TaskMoves DEF history
<1>10. CASE StreamRaises(p)
  <2>1. /\ task[p].at \in {"open", "stream", "asking"}
        /\ task' = [task EXCEPT ![p].at = "done", ![p].how = "raised"]
        /\ UNCHANGED <<announced, cancelled, turn, runtime, unfinished, req, stop, asked, journal,
                       measured, known, meter, history>>
    BY <1>10 DEF StreamRaises, At, session, usage
  <2> DEFINE t == [task[p] EXCEPT !.at = "done", !.how = "raised"]
  <2>2. t \in TurnTasks /\ t.at = "done" /\ t.how = "raised" /\ task' = [task EXCEPT ![p] = t]
    BY <1>0, <2>1 DEF TurnTasks
  <2>3. ~unfinished
    BY <1>2, <1>3, <2>1
  <2> HIDE DEF t
  <2>4. AcpTypeOK'
    BY <1>0, <1>1, <2>1, <2>2 DEF AcpTypeOK
  <2> QED BY <2>1, <2>2, <2>3, <2>4, TaskMoves DEF history, Sent
<1>11. CASE TaskEnds(p)
  <2>1. /\ task[p].at = "closing"
        /\ task' = [task EXCEPT ![p].at = "done",
                        ![p].how = IF @ = "stopped" \/ cancelled THEN "completed" ELSE @]
        /\ known' = measured /\ meter' = measured /\ measured' = measured
        /\ UNCHANGED <<announced, cancelled, turn, runtime, unfinished, req, stop, asked, journal, history>>
    BY <1>11 DEF TaskEnds, SendStored, At, session
  <2> DEFINE t == [task[p] EXCEPT !.at = "done",
                       !.how = IF @ = "stopped" \/ cancelled THEN "completed" ELSE @]
  <2>2. t \in TurnTasks /\ t.at = "done" /\ task' = [task EXCEPT ![p] = t]
    BY <1>0, <2>1 DEF TurnTasks
  <2>3. t.how # "raised"
    <3>1. task[p].how # "raised"
      BY <2>1 DEF AcpInv, InTurn, PromptFits
    <3> QED BY <1>0, <3>1 DEF TurnTasks
  <2> HIDE DEF t
  <2>4. AcpTypeOK'
    BY <1>0, <1>1, <2>1, <2>2 DEF AcpTypeOK
  <2> QED BY <1>4, <2>1, <2>2, <2>3, <2>4, TaskMoves DEF history
<1>12. CASE TaskCancelled(p)
  <2>1. /\ task[p].at \notin {"none", "done"}
        /\ task' = [task EXCEPT ![p].at = "done", ![p].how = "cancelled"]
        /\ journal' = (journal \/ task[p].at \in {"stream", "asking"})
        /\ UNCHANGED <<announced, cancelled, turn, runtime, unfinished, req, stop, asked,
                       measured, known, meter, history>>
    BY <1>12 DEF TaskCancelled, Live, session, usage
  <2> DEFINE t == [task[p] EXCEPT !.at = "done", !.how = "cancelled"]
  <2>2. t \in TurnTasks /\ t.at = "done" /\ t.how = "cancelled" /\ task' = [task EXCEPT ![p] = t]
    BY <1>0, <2>1 DEF TurnTasks
  <2> HIDE DEF t
  <2>3. journal' \in BOOLEAN /\ (journal => journal')
    BY <1>0, <2>1
  <2>4. AcpTypeOK'
    BY <1>0, <1>1, <2>1, <2>2, <2>3 DEF AcpTypeOK
  <2> QED BY <1>4, <2>1, <2>2, <2>3, <2>4, TaskMoves DEF history, Sent
<1> QED BY <1>5, <1>6, <1>7, <1>8, <1>9, <1>10, <1>11, <1>12 DEF TaskStep

\* Before a prompt has its turn there is none, and nothing came to cancel it.
LEMMA Fresh ==
    ASSUME AcpInv, NEW p \in Prompts, req[p].at \in {"unsent", "announcing", "local"},
           \A q \in Prompts : q < p => Answered(q)
    PROVE  /\ turn = NoTurn /\ p \notin wanted /\ task[p].at = "none" /\ req[p].answer = "none"
           /\ \A q \in Prompts \ {p} :
                \/ q < p /\ ~(q > p) /\ Answered(q) /\ task[q].at \in {"none", "done"}
                \/ q > p /\ ~(q < p) /\ req[q].at = "unsent" /\ task[q].at = "none"
                   /\ req[q].answer = "none"
<1>1. task[p].at = "none" /\ req[p].answer = "none" /\ ~Answered(p)
  BY DEF AcpInv, InTurn, PromptFits, Answered
<1>2. ASSUME NEW q \in Prompts \ {p}
      PROVE  \/ q < p /\ ~(q > p) /\ Answered(q) /\ task[q].at \in {"none", "done"}
             \/ q > p /\ ~(q < p) /\ req[q].at = "unsent" /\ task[q].at = "none"
                /\ req[q].answer = "none"
  <2>1. CASE q < p
    <3>1. ~(q > p)
      BY <2>1, AcpAssumption DEF Prompts
    <3> QED BY <2>1, <3>1 DEF AcpInv, InTurn, PromptFits
  <2>2. CASE p < q
    <3>1. q > p /\ ~(q < p)
      BY <2>2, AcpAssumption DEF Prompts
    <3>2. req[q].at = "unsent"
      BY <1>1, <2>2 DEF AcpInv, InTurn, PromptFits
    <3> QED BY <3>1, <3>2 DEF AcpInv, InTurn, PromptFits, Answered
  <2> QED BY <2>1, <2>2, AcpNumbers
<1>3. turn = NoTurn
  <2> SUFFICES ASSUME turn # NoTurn PROVE FALSE
    OBVIOUS
  <2>1. turn \in Prompts /\ req[turn].at \in {"turn", "limits"}
    BY AcpTypes DEF AcpInv, InTurn, PromptFits
  <2> QED BY <1>2, <2>1 DEF Answered
<1>4. p \notin wanted
  BY DEF AcpInv, Wanted
<1> QED BY <1>1, <1>2, <1>3, <1>4

\* A prompt goes on, without the turn.
LEMMA Handled ==
    ASSUME AcpInv, NEW p \in Prompts, req[p].at \in {"unsent", "announcing", "local"},
           \A q \in Prompts : q < p => Answered(q),
           NEW r \in Requests, req' = [req EXCEPT ![p] = r],
           \/ r.at \in {"announcing", "local"} /\ r.answer = "none" /\ meter' = meter /\ measured' = measured
           \/ /\ r.at = "answered" /\ r.answer = "end_turn"
              /\ (meter' = meter /\ measured' = measured) \/ meter' = measured',
           AcpTypeOK', UNCHANGED <<turn, cancelled, unfinished, task, journal, wanted>>
    PROVE  AcpInv'
<1>1. /\ turn = NoTurn /\ p \notin wanted /\ task[p].at = "none"
      /\ \A q \in Prompts \ {p} :
            \/ q < p /\ ~(q > p) /\ Answered(q) /\ task[q].at \in {"none", "done"}
            \/ q > p /\ ~(q < p) /\ req[q].at = "unsent" /\ task[q].at = "none"
               /\ req[q].answer = "none"
  BY Fresh
<1>2. req'[p] = r /\ \A q \in Prompts \ {p} : req'[q] = req[q]
  BY AcpTypes DEF AcpInv
<1>3. p # NoTurn /\ ~(p < p)
  BY AcpNumbers, AcpAssumption DEF Prompts
<1>4. InTurn'
  <2>1. ASSUME NEW a \in Prompts, NEW b \in Prompts, a < b, req'[b].at # "unsent"
        PROVE  Answered(a)'
    <3>1. a # p
      BY <1>1, <1>2, <1>3, <2>1
    <3>2. Answered(a)
      BY <1>1, <1>2, <2>1, <3>1 DEF AcpInv, InTurn, PromptFits
    <3> QED BY <1>2, <3>1, <3>2 DEF Answered
  <2>2. ASSUME NEW a \in Prompts
        PROVE  PromptFits(a)'
    <3>1. CASE a = p
      BY <1>1, <1>2, <1>3, <3>1 DEF PromptFits, Answered
    <3>2. CASE a # p
      BY <1>2, <3>2 DEF AcpInv, InTurn, PromptFits, Answered
    <3> QED BY <3>1, <3>2
  <2> QED BY <2>1, <2>2 DEF InTurn
<1>5. Wanted'
  BY <1>1, <1>2 DEF AcpInv, Wanted
<1>6. Unfinished'
  BY DEF AcpInv, Unfinished
<1>7. Metered'
  BY <1>1, <1>2 DEF AcpInv, Metered, Answered
<1>8. StopReasonFollowsCancel'
  BY <1>1, <1>2 DEF AcpInv, StopReasonFollowsCancel, Answered
<1>9. AnswersMatchTheThread'
  <2>1. ASSUME NEW q \in Prompts, req'[q].answer = "max_turn_requests",
               \A s \in Prompts : s > q => task'[s].at \in {"none", "new", "open"}
        PROVE  journal'
    <3>1. q # p
      BY <1>2, <2>1
    <3> QED BY <1>2, <2>1, <3>1 DEF AcpInv, AnswersMatchTheThread
  <2>2. ASSUME NEW q \in Prompts, req'[q].answer \in {"end_turn", "max_turn_requests"},
               task'[q].at = "done", \A s \in Prompts : s > q => task'[s].at = "none"
        PROVE  meter' = measured'
    <3>1. q # p
      BY <1>1, <2>2
    <3>2. meter = measured
      BY <1>2, <2>2, <3>1 DEF AcpInv, AnswersMatchTheThread
    <3> QED BY <3>2
  <2> QED BY <2>1, <2>2 DEF AnswersMatchTheThread
<1> QED BY <1>4, <1>5, <1>6, <1>7, <1>8, <1>9 DEF AcpInv

\* A turn starts from a session that is made ready for it.
LEMMA TurnStarted ==
    ASSUME AcpInv, NEW p \in Prompts, req[p].at \in {"unsent", "announcing", "local"},
           \A q \in Prompts : q < p => Answered(q),
           NEW r \in Requests, req' = [req EXCEPT ![p] = r],
           r.at = "turn", r.answer = "none", TurnStarts(p),
           AcpTypeOK', UNCHANGED <<journal, wanted, meter, measured>>
    PROVE  AcpInv'
<1>1. /\ p \notin wanted /\ task[p].at = "none"
      /\ \A q \in Prompts \ {p} :
            \/ q < p /\ ~(q > p) /\ Answered(q) /\ task[q].at \in {"none", "done"}
            \/ q > p /\ ~(q < p) /\ req[q].at = "unsent" /\ task[q].at = "none"
               /\ req[q].answer = "none"
  BY Fresh
<1>2. req'[p] = r /\ \A q \in Prompts \ {p} : req'[q] = req[q]
  BY AcpTypes DEF AcpInv
<1>3. p # NoTurn /\ ~(p < p) /\ \A q \in Prompts : q < p <=> p > q
  BY AcpNumbers, AcpAssumption DEF Prompts
<1>4. /\ turn' = p /\ cancelled' = FALSE /\ unfinished' = FALSE
      /\ task'[p].at = "new" /\ \A q \in Prompts \ {p} : task'[q] = task[q]
  BY AcpTypes DEF TurnStarts, AcpInv, TurnTasks
<1>5. InTurn'
  <2>1. ASSUME NEW a \in Prompts, NEW b \in Prompts, a < b, req'[b].at # "unsent"
        PROVE  Answered(a)'
    <3>1. a # p
      BY <1>1, <1>2, <1>3, <2>1
    <3>2. Answered(a)
      BY <1>1, <1>2, <2>1, <3>1 DEF AcpInv, InTurn, PromptFits
    <3> QED BY <1>2, <3>1, <3>2 DEF Answered
  <2>2. ASSUME NEW a \in Prompts
        PROVE  PromptFits(a)'
    <3>1. CASE a = p
      BY <1>2, <1>4, <3>1 DEF PromptFits, Answered
    <3>2. CASE a # p
      BY <1>1, <1>2, <1>4, <3>2 DEF AcpInv, InTurn, PromptFits, Answered
    <3> QED BY <3>1, <3>2
  <2> QED BY <2>1, <2>2 DEF InTurn
<1>6. Wanted'
  BY <1>1, <1>2, <1>4 DEF AcpInv, Wanted
<1>7. Unfinished'
  BY <1>4 DEF Unfinished
<1>8. ASSUME NEW q \in Prompts, q # p, req'[q].answer # "none" \/ task'[q].at # "none"
      PROVE  q < p /\ p > q
  BY <1>1, <1>2, <1>3, <1>4, <1>8
<1>9. Metered'
  BY <1>2, <1>4, <1>8 DEF AcpInv, Metered, Answered
<1>10. StopReasonFollowsCancel'
  BY <1>2 DEF AcpInv, StopReasonFollowsCancel, Answered
<1>11. AnswersMatchTheThread'
  <2>1. ASSUME NEW q \in Prompts, req'[q].answer = "max_turn_requests",
               \A s \in Prompts : s > q => task'[s].at \in {"none", "new", "open"}
        PROVE  journal'
    <3>1. q # p
      BY <1>2, <2>1
    <3>2. \A s \in Prompts : s > q => task[s].at \in {"none", "new", "open"}
      BY <1>1, <1>4, <2>1
    <3> QED BY <1>2, <2>1, <3>1, <3>2 DEF AcpInv, AnswersMatchTheThread
  <2>2. ASSUME NEW q \in Prompts, req'[q].answer \in {"end_turn", "max_turn_requests"},
               task'[q].at = "done", \A s \in Prompts : s > q => task'[s].at = "none"
        PROVE  meter' = measured'
    <3>1. q # p
      BY <1>2, <2>2
    <3> QED BY <1>4, <1>8, <2>2, <3>1
  <2> QED BY <2>1, <2>2 DEF AnswersMatchTheThread
<1> QED BY <1>5, <1>6, <1>7, <1>9, <1>10, <1>11 DEF AcpInv

\* A turn is over, and its prompt is answered.
LEMMA AnswerOfTurn ==
    ASSUME AcpInv, NEW p \in Prompts, req[p].at \in {"turn", "limits"}, task[p].at = "done",
           NEW reason \in {"end_turn", "cancelled", "aborted", "usage_limit", "max_turn_requests", "error"},
           Answers(p, reason),
           reason = "cancelled" <=> p \in wanted,
           reason \in {"end_turn", "max_turn_requests"} => task[p].how \in Sent,
           reason = "max_turn_requests" => journal
    PROVE  AcpInv'
<1>1. /\ turn = p /\ turn' = NoTurn /\ p # NoTurn
      /\ UNCHANGED <<announced, cancelled, unfinished, task, stop, asked, journal, measured, known, meter,
                     wanted, struck>>
  BY AcpNumbers DEF AcpInv, InTurn, PromptFits, Answers, usage, history
<1>2. /\ req' \in [Prompts -> Requests] /\ req'[p].at = "answered" /\ req'[p].answer = reason
      /\ \A q \in Prompts \ {p} : req'[q] = req[q]
  BY AcpTypes DEF AcpInv, Answers, Requests
<1>3. AcpTypeOK'
  <2>1. runtime' = NoTurn
    BY DEF Answers
  <2> QED BY <1>1, <1>2, <2>1 DEF AcpInv, AcpTypeOK, Requests
<1>4. InTurn'
  <2>1. ASSUME NEW a \in Prompts, NEW b \in Prompts, a < b, req'[b].at # "unsent"
        PROVE  Answered(a)'
    BY <1>2, <2>1 DEF AcpInv, InTurn, PromptFits, Answered
  <2>2. ASSUME NEW a \in Prompts
        PROVE  PromptFits(a)'
    <3>1. CASE a = p
      BY <1>1, <1>2, <3>1 DEF PromptFits, Answered
    <3>2. CASE a # p
      BY <1>1, <1>2, <3>2, AcpNumbers DEF AcpInv, InTurn, PromptFits, Answered
    <3> QED BY <3>1, <3>2
  <2> QED BY <2>1, <2>2 DEF InTurn
<1>5. Wanted'
  BY <1>1, <1>2, AcpTypes DEF AcpInv, Wanted
<1>6. Unfinished'
  BY <1>1 DEF AcpInv, Unfinished
<1>7. Metered'
  BY <1>1, <1>2 DEF AcpInv, Metered, Answered
<1>8. StopReasonFollowsCancel'
  BY <1>1, <1>2 DEF AcpInv, StopReasonFollowsCancel, Answered
<1>9. AnswersMatchTheThread'
  <2>1. ASSUME NEW q \in Prompts, req'[q].answer = "max_turn_requests",
               \A s \in Prompts : s > q => task'[s].at \in {"none", "new", "open"}
        PROVE  journal'
    BY <1>1, <1>2, <2>1 DEF AcpInv, AnswersMatchTheThread
  <2>2. ASSUME NEW q \in Prompts, req'[q].answer \in {"end_turn", "max_turn_requests"},
               task'[q].at = "done", \A s \in Prompts : s > q => task'[s].at = "none"
        PROVE  meter' = measured'
    <3>1. CASE q = p
      BY <1>1, <1>2, <2>2, <3>1 DEF AcpInv, Metered
    <3>2. CASE q # p
      BY <1>1, <1>2, <2>2, <3>2 DEF AcpInv, AnswersMatchTheThread
    <3> QED BY <3>1, <3>2
  <2> QED BY <2>1, <2>2 DEF AnswersMatchTheThread
<1> QED BY <1>3, <1>4, <1>5, <1>6, <1>7, <1>8, <1>9 DEF AcpInv

LEMMA PromptSteps ==
    ASSUME AcpInv, Overlap = FALSE, NEW p \in Prompts,
           PromptStep(p) \/ \E kind \in Kinds : Receive(p, kind)
    PROVE  AcpInv'
<1>0. /\ req \in [Prompts -> Requests] /\ req[p] \in Requests /\ task \in [Prompts -> TurnTasks]
      /\ measured \in 0..MaxUsage /\ known \in 0..MaxUsage /\ meter \in 0..MaxUsage
      /\ AcpTypeOK
  BY AcpTypes DEF AcpInv
<1>1. ASSUME NEW kind \in Kinds, Dispatched(p, kind), req[p].at \in {"unsent", "announcing"},
             \A q \in Prompts : q < p => Answered(q), announced' \in BOOLEAN,
             UNCHANGED <<runtime, stop, asked, journal, usage, history>>
      PROVE  AcpInv'
  <2>0. req[p].answer = "none"
    BY <1>1, Fresh
  <2>1. CASE kind \in {"local", "compact"}
    <3> DEFINE r == [req[p] EXCEPT !.at = "local", !.kind = kind]
    <3>1. /\ r \in Requests /\ r.at = "local" /\ r.answer = "none" /\ req' = [req EXCEPT ![p] = r]
          /\ UNCHANGED <<turn, cancelled, unfinished, task>>
      BY <1>0, <1>1, <2>0, <2>1 DEF Dispatched, Requests
    <3> HIDE DEF r
    <3>2. AcpTypeOK'
      <4>1. req' \in [Prompts -> Requests]
        BY <1>0, <3>1
      <4> QED BY <1>0, <1>1, <3>1, <4>1 DEF AcpTypeOK, Requests, usage, history
    <3> QED BY <1>1, <3>1, <3>2, Handled DEF usage, history
  <2>2. CASE kind \notin {"local", "compact"}
    <3> DEFINE r == [req[p] EXCEPT !.at = "turn", !.kind = kind]
    <3>1. /\ r \in Requests /\ r.at = "turn" /\ r.answer = "none" /\ req' = [req EXCEPT ![p] = r]
          /\ TurnStarts(p)
      BY <1>0, <1>1, <2>0, <2>2 DEF Dispatched, Requests
    <3> HIDE DEF r
    <3>2. AcpTypeOK'
      <4>1. req' \in [Prompts -> Requests]
        BY <1>0, <3>1
      <4>2. task' \in [Prompts -> TurnTasks] /\ turn' \in Prompts /\ cancelled' = FALSE /\ unfinished' = FALSE
        BY <1>0, <3>1 DEF TurnStarts, TurnTasks
      <4> QED BY <1>0, <1>1, <4>1, <4>2 DEF AcpTypeOK, Requests, TurnTasks, usage, history
    <3> QED BY <1>1, <3>1, <3>2, TurnStarted DEF usage, history
  <2> QED BY <2>1, <2>2
<1>2. CASE \E kind \in Kinds : Receive(p, kind)
  <2> PICK kind \in Kinds : Receive(p, kind)
    BY <1>2
  <2>1. req[p].at = "unsent" /\ (\A q \in Prompts : q < p => Answered(q)) /\ announced' = TRUE
        /\ UNCHANGED <<runtime, stop, asked, journal, usage, history>>
    BY DEF Receive
  <2>2. turn = NoTurn /\ req[p].answer = "none"
    BY <2>1, Fresh
  <2>3. CASE announced
    BY <1>1, <2>1, <2>2, <2>3 DEF Receive, Busy, Live
  <2>4. CASE ~announced
    <3> DEFINE r == [req[p] EXCEPT !.at = "announcing", !.kind = kind]
    <3>1. /\ r \in Requests /\ r.at = "announcing" /\ r.answer = "none"
      BY <1>0, <2>2 DEF Requests
    <3>2. req' = [req EXCEPT ![p] = r] /\ UNCHANGED <<turn, cancelled, unfinished, task>>
      BY <1>0, <2>1, <2>2, <2>4 DEF Receive, Busy, Live
    <3> HIDE DEF r
    <3>3. AcpTypeOK'
      <4>1. req' \in [Prompts -> Requests]
        BY <1>0, <3>1, <3>2
      <4> QED BY <1>0, <2>1, <3>2, <4>1 DEF AcpTypeOK, Requests, usage, history
    <3> QED BY <2>1, <3>1, <3>2, <3>3, Handled DEF usage, history
  <2> QED BY <2>3, <2>4
<1>3. CASE Announced(p)
  <2>1. /\ req[p].at = "announcing" /\ req[p].kind \in Kinds /\ Dispatched(p, req[p].kind)
        /\ UNCHANGED <<announced, runtime, stop, asked, journal, usage, history>>
    BY <1>0, <1>3 DEF Announced, Requests
  <2>2. \A q \in Prompts : q < p => Answered(q)
    BY <2>1 DEF AcpInv, InTurn
  <2>3. announced' \in BOOLEAN
    BY <1>0, <2>1 DEF AcpTypeOK
  <2> QED BY <1>1, <2>1, <2>2, <2>3
<1>4. CASE LocalAnswers(p)
  <2>1. /\ req[p].at = "local"
        /\ UNCHANGED <<announced, cancelled, turn, runtime, unfinished, task, stop, asked, journal, history>>
    BY <1>4 DEF LocalAnswers, session
  <2>2. \A q \in Prompts : q < p => Answered(q)
    BY <2>1 DEF AcpInv, InTurn
  <2>3. /\ (meter' = meter /\ measured' = measured) \/ meter' = measured'
        /\ meter' \in 0..MaxUsage /\ measured' \in 0..MaxUsage /\ known' \in 0..MaxUsage
    BY <1>0, <1>4 DEF LocalAnswers, usage
  <2> DEFINE r == [req[p] EXCEPT !.at = "answered", !.answer = "end_turn"]
  <2>4. r \in Requests /\ r.at = "answered" /\ r.answer = "end_turn" /\ req' = [req EXCEPT ![p] = r]
    BY <1>0, <1>4 DEF LocalAnswers, Requests
  <2> HIDE DEF r
  <2>5. AcpTypeOK'
    <3>1. req' \in [Prompts -> Requests]
      BY <1>0, <2>4
    <3> QED BY <1>0, <2>1, <2>3, <3>1 DEF AcpTypeOK, Requests, history
  <2> QED BY <2>1, <2>2, <2>3, <2>4, <2>5, Handled DEF history
<1>5. ASSUME req[p].at \in {"turn", "limits"}
      PROVE  turn = p /\ p # NoTurn /\ (cancelled <=> p \in wanted) /\ (unfinished => journal)
             /\ (task[p].at = "done" /\ task[p].how = "raised" => ~unfinished)
  BY <1>5, AcpNumbers DEF AcpInv, InTurn, PromptFits, Wanted, Unfinished
<1>6. CASE PromptReturns(p)
  <2>1. req[p].at = "turn" /\ task[p].at = "done"
    BY <1>6 DEF PromptReturns, TurnOver
  <2>2. PICK reason \in {"end_turn", "cancelled", "aborted"} :
            /\ Answers(p, reason) /\ (reason = "cancelled" <=> cancelled)
            /\ reason = "end_turn" => task[p].how = "completed"
    BY <1>0, <1>6 DEF PromptReturns, AcpTypeOK
  <2> QED BY <1>5, <2>1, <2>2, AnswerOfTurn DEF Sent
<1>7. CASE PromptFails(p)
  <2>1. /\ req[p].at = "limits" /\ task[p].at = "done" /\ ~cancelled
        /\ task[p].how \in {"failed", "limit", "paused", "raised"}
    BY <1>7 DEF PromptFails, AcpInv, InTurn, PromptFits
  <2>2. PICK reason \in {"usage_limit", "max_turn_requests", "error"} :
            Answers(p, reason) /\ (reason = "max_turn_requests" => unfinished)
    BY <1>7 DEF PromptFails
  <2>3. reason = "max_turn_requests" => task[p].how \in Sent /\ journal
    BY <1>5, <2>1, <2>2 DEF Sent
  <2> QED BY <1>5, <2>1, <2>2, <2>3, AnswerOfTurn
<1>8. CASE PromptLooksUp(p)
  <2>1. /\ req[p].at = "turn" /\ task[p].at = "done" /\ ~cancelled
        /\ task[p].how \in {"failed", "limit", "paused", "raised"}
        /\ req' = [req EXCEPT ![p].at = "limits"]
        /\ UNCHANGED <<announced, cancelled, turn, runtime, unfinished, task, stop, asked, journal,
                       measured, known, meter, wanted, struck>>
    BY <1>8 DEF PromptLooksUp, TurnOver, session, usage, history
  <2>2. /\ req' \in [Prompts -> Requests] /\ req'[p].at = "limits" /\ req'[p].answer = req[p].answer
        /\ \A q \in Prompts \ {p} : req'[q] = req[q]
    BY <1>0, <2>1 DEF Requests
  <2>3. AcpTypeOK'
    BY <1>0, <2>1, <2>2 DEF AcpTypeOK, Requests
  <2>4. turn = p /\ p \notin wanted
    BY <1>5, <2>1
  <2>5. \A q \in Prompts : (Answered(q)' <=> Answered(q)) /\ req'[q].answer = req[q].answer
    BY <2>1, <2>2 DEF Answered
  <2>6. InTurn'
    <3>1. ASSUME NEW a \in Prompts PROVE PromptFits(a)'
      <4>1. CASE a = p
        BY <2>1, <2>2, <2>4, <2>5, <4>1 DEF AcpInv, InTurn, PromptFits, Answered
      <4>2. CASE a # p
        BY <2>1, <2>2, <2>5, <4>2 DEF AcpInv, InTurn, PromptFits, Answered
      <4> QED BY <4>1, <4>2
    <3> QED BY <2>1, <2>2, <2>5, <3>1 DEF AcpInv, InTurn
  <2>7. Wanted' /\ Unfinished' /\ Metered'
    BY <2>1, <2>2, <2>4, <2>5 DEF AcpInv, Wanted, Unfinished, Metered
  <2>8. StopReasonFollowsCancel' /\ AnswersMatchTheThread'
    BY <2>1, <2>5 DEF AcpInv, StopReasonFollowsCancel, AnswersMatchTheThread
  <2> QED BY <2>3, <2>6, <2>7, <2>8 DEF AcpInv
<1> QED BY <1>2, <1>3, <1>4, <1>6, <1>7, <1>8 DEF PromptStep

\* What a cancel handler does to the tasks: it wakes those that ask, it strikes one.
LEMMA TasksStay ==
    ASSUME AcpInv, AcpTypeOK',
           \A p \in Prompts :
               /\ task'[p].how = task[p].how
               /\ \/ task'[p].at = task[p].at
                  \/ task[p].at = "asking" /\ task'[p].at = "stream",
           UNCHANGED <<req, cancelled, turn, unfinished, journal, meter, measured, wanted>>
    PROVE  AcpInv'
<1>0. turn \in Prompts \cup {NoTurn}
  BY AcpTypes DEF AcpInv
<1>1. \A p \in Prompts : PromptFits(p)'
  BY DEF AcpInv, InTurn, PromptFits, Answered
<1>2. InTurn'
  BY <1>1 DEF AcpInv, InTurn, Answered
<1>3. Wanted' /\ Unfinished'
  BY <1>0 DEF AcpInv, Wanted, Unfinished
<1>4. Metered'
  BY DEF AcpInv, Metered, Answered
<1>5. StopReasonFollowsCancel'
  BY DEF AcpInv, StopReasonFollowsCancel, Answered
<1>6. AnswersMatchTheThread'
  <2>1. \A p \in Prompts : /\ task'[p].at = "none" <=> task[p].at = "none"
                           /\ task'[p].at = "done" <=> task[p].at = "done"
                           /\ task'[p].at \in {"none", "new", "open"} <=> task[p].at \in {"none", "new", "open"}
    OBVIOUS
  <2> QED BY <2>1 DEF AcpInv, AnswersMatchTheThread
<1> QED BY <1>2, <1>3, <1>4, <1>5, <1>6 DEF AcpInv

LEMMA CancelSteps ==
    ASSUME AcpInv, NEW c \in Cancels, CancelArrives(c) \/ CancelStep(c)
    PROVE  AcpInv'
<1>0. /\ req \in [Prompts -> Requests] /\ task \in [Prompts -> TurnTasks] /\ stop \in [Cancels -> Stops]
      /\ stop[c] \in Stops /\ turn \in Prompts \cup {NoTurn} /\ runtime \in Prompts \cup {NoTurn}
      /\ asked \subseteq Prompts /\ wanted \subseteq Prompts /\ struck \subseteq Prompts
      /\ AcpTypeOK
  BY AcpTypes DEF AcpInv
<1>1. CASE CancelArrives(c) /\ Busy
  <2>1. /\ cancelled' = TRUE /\ wanted' = wanted \cup {turn}
        /\ stop' = [stop EXCEPT ![c] =
                       [at |-> IF runtime # NoTurn THEN "hosted" ELSE "tools", aim |-> turn]]
        /\ asked' = asked \cup ({runtime} \ {NoTurn})
        /\ UNCHANGED <<announced, turn, runtime, unfinished, req, task, journal, measured, known, meter, struck>>
    BY <1>1 DEF CancelArrives, usage
  <2>2. turn \in Prompts /\ task[turn].at \notin {"none", "done"}
    BY <1>0, <1>1 DEF Busy, Live
  <2>3. req[turn].at = "turn"
    BY <2>2, LiveIsTurn
  <2>4. AcpTypeOK'
    <3>1. stop' \in [Cancels -> Stops]
      BY <1>0, <2>1 DEF Stops
    <3>2. asked' \subseteq Prompts /\ wanted' \subseteq Prompts
      BY <1>0, <2>1, <2>2
    <3> QED BY <1>0, <2>1, <3>1, <3>2 DEF AcpTypeOK, Stops
  <2>5. ASSUME NEW q \in Prompts PROVE PromptFits(q)'
    <3>1. req[q].at # "limits"
      BY <2>2, <2>3 DEF AcpInv, InTurn, PromptFits
    <3> QED BY <2>1, <3>1 DEF AcpInv, InTurn, PromptFits, Answered
  <2>6. InTurn'
    BY <2>1, <2>5 DEF AcpInv, InTurn, Answered
  <2>7. Wanted' /\ Unfinished' /\ Metered' /\ AnswersMatchTheThread'
    BY <2>1, <2>3 DEF AcpInv, Wanted, Unfinished, Metered, AnswersMatchTheThread, Answered
  <2>8. StopReasonFollowsCancel'
    BY <2>1, <2>3 DEF AcpInv, StopReasonFollowsCancel, Answered
  <2> QED BY <2>4, <2>6, <2>7, <2>8 DEF AcpInv
<1>2. CASE (CancelArrives(c) /\ ~Busy) \/ CancelHosted(c) \/ CancelTools(c) \/ CancelTurn(c)
  <2>1. UNCHANGED <<announced, req, cancelled, turn, runtime, unfinished, asked, journal, measured, known, meter, wanted>>
    BY <1>2 DEF CancelArrives, CancelHosted, CancelTools, CancelTurn, session, usage, history
  <2>2. stop' \in [Cancels -> Stops]
    BY <1>0, <1>2 DEF CancelArrives, CancelHosted, CancelTools, CancelTurn, Stops
  <2>3. /\ task' \in [Prompts -> TurnTasks] /\ struck' \subseteq Prompts
        /\ \A p \in Prompts :
               /\ task'[p].how = task[p].how
               /\ \/ task'[p].at = task[p].at
                  \/ task[p].at = "asking" /\ task'[p].at = "stream"
    <3>1. CASE (CancelArrives(c) /\ ~Busy) \/ CancelHosted(c)
      BY <1>0, <3>1 DEF CancelArrives, CancelHosted, history
    <3>2. CASE CancelTools(c)
      BY <1>0, <3>2 DEF CancelTools, history, TurnTasks
    <3>3. CASE CancelTurn(c)
      <4>1. struck' \subseteq Prompts
        BY <1>0, <3>3 DEF CancelTurn, Strike, Busy, Live
      <4>2. task' = [p \in Prompts |-> IF p = turn /\ Live(p)
                                       THEN [task[p] EXCEPT !.hit = TRUE] ELSE task[p]]
        BY <3>3 DEF CancelTurn, Strike
      <4> QED BY <1>0, <4>1, <4>2 DEF TurnTasks
    <3> QED BY <1>2, <3>1, <3>2, <3>3
  <2>4. AcpTypeOK'
    BY <1>0, <2>1, <2>2, <2>3 DEF AcpTypeOK, Stops, TurnTasks
  <2> QED BY <2>1, <2>3, <2>4, TasksStay
<1> QED BY <1>1, <1>2 DEF CancelStep

LEMMA LoadStep ==
    ASSUME AcpInv, Load
    PROVE  AcpInv'
<1>0. /\ req \in [Prompts -> Requests] /\ task \in [Prompts -> TurnTasks] /\ stop \in [Cancels -> Stops]
      /\ AcpTypeOK
  BY AcpTypes DEF AcpInv
<1>1. /\ \A p \in Prompts : req[p].at \in {"unsent", "answered"}
      /\ announced' = TRUE /\ cancelled' = FALSE /\ unfinished' = FALSE
      /\ turn' = NoTurn /\ runtime' = NoTurn
      /\ known' = measured /\ meter' = measured /\ measured' = measured
      /\ UNCHANGED <<req, task, asked, journal, wanted, struck>>
  BY DEF Load, history
<1>2. stop' \in [Cancels -> Stops]
  <2>1. stop' = [c \in Cancels |-> IF stop[c].at = "unsent" THEN stop[c]
                                   ELSE [stop[c] EXCEPT !.at = "done"]]
    BY DEF Load
  <2>2. \A c \in Cancels : [stop[c] EXCEPT !.at = "done"] \in Stops
    BY <1>0 DEF Stops
  <2> QED BY <1>0, <2>1, <2>2
<1>3. AcpTypeOK'
  BY <1>0, <1>1, <1>2 DEF AcpTypeOK, Stops
<1>4. ASSUME NEW p \in Prompts PROVE PromptFits(p)'
  BY <1>1, AcpNumbers DEF AcpInv, InTurn, PromptFits, Answered
<1>5. InTurn'
  BY <1>1, <1>4 DEF AcpInv, InTurn, Answered
<1>6. Wanted' /\ Unfinished' /\ Metered' /\ StopReasonFollowsCancel' /\ AnswersMatchTheThread'
  BY <1>1 DEF AcpInv, Wanted, Unfinished, Metered, StopReasonFollowsCancel, AnswersMatchTheThread, Answered
<1> QED BY <1>3, <1>5, <1>6 DEF AcpInv

LEMMA AcpStep == AcpInv /\ Overlap = FALSE /\ [AcpNext]_acpVars => AcpInv'
<1> SUFFICES ASSUME AcpInv, Overlap = FALSE, [AcpNext]_acpVars PROVE AcpInv'
  OBVIOUS
<1>1. CASE UNCHANGED acpVars
  <2>1. UNCHANGED <<announced, cancelled, turn, runtime, unfinished, req, task, stop, asked, journal,
                    measured, known, meter, wanted, struck>>
    BY <1>1 DEF acpVars, session, usage, history
  <2>2. AcpTypeOK'
    BY <2>1 DEF AcpInv, AcpTypeOK
  <2> QED BY <2>1, <2>2, TasksStay
<1>2. CASE AcpNext
  BY <1>2, PromptSteps, TaskSteps, CancelSteps, LoadStep DEF AcpNext
<1> QED BY <1>1, <1>2

LEMMA AcpStart == AcpInit => AcpInv
<1> SUFFICES ASSUME AcpInit PROVE AcpInv
  OBVIOUS
<1>1. /\ turn = NoTurn /\ wanted = {} /\ unfinished = FALSE
      /\ \A p \in Prompts : req[p].at = "unsent" /\ req[p].answer = "none" /\ task[p].at = "none"
  BY DEF AcpInit, NoRequest, NoTask
<1>2. AcpTypeOK
  <2>1. NoRequest \in Requests /\ NoTask \in TurnTasks /\ NoStop \in Stops
    BY DEF NoRequest, NoTask, NoStop, Requests, TurnTasks, Stops, Kinds
  <2>2. /\ req \in [Prompts -> Requests] /\ task \in [Prompts -> TurnTasks] /\ stop \in [Cancels -> Stops]
    BY <2>1 DEF AcpInit
  <2>3. 0 \in 0..MaxUsage
    BY AcpAssumption
  <2> QED BY <2>2, <2>3, AcpTypes DEF AcpInit
<1>3. ASSUME NEW p \in Prompts PROVE PromptFits(p)
  BY <1>1, AcpNumbers DEF PromptFits, Answered
<1>4. InTurn /\ Wanted /\ Unfinished /\ Metered
  BY <1>1, <1>3 DEF InTurn, Wanted, Unfinished, Metered
<1>5. StopReasonFollowsCancel /\ AnswersMatchTheThread
  BY <1>1 DEF StopReasonFollowsCancel, AnswersMatchTheThread, Answered
<1> QED BY <1>2, <1>4, <1>5 DEF AcpInv

\* A client that waits for the answer before it sends the next prompt.
OneAtATime == Overlap = FALSE

LEMMA AcpKept == ASSUME OneAtATime PROVE AcpSpec => []AcpInv
<1>1. AcpInv /\ [AcpNext]_acpVars => AcpInv'
  BY AcpStep DEF OneAtATime
<1> QED BY <1>1, AcpStart, PTL DEF AcpSpec

\* The stop reason is "cancelled" exactly for the turns a session/cancel came for,
\* for any number of prompts, cancels and sessions loaded in between (prompt).
THEOREM StopReasonsAreTrue ==
    ASSUME OneAtATime PROVE AcpSpec => []StopReasonFollowsCancel
<1>1. AcpInv => StopReasonFollowsCancel
  BY DEF AcpInv
<1> QED BY <1>1, AcpKept, PTL

\* A turn reported as out of requests has its journal, and a turn that ended by
\* itself leaves the client's meter at the size in the checkpoint (prompt, _run_turn).
THEOREM AnswersAreTrue ==
    ASSUME OneAtATime PROVE AcpSpec => []AnswersMatchTheThread
<1>1. AcpInv => AnswersMatchTheThread
  BY DEF AcpInv
<1> QED BY <1>1, AcpKept, PTL

\* The busy check lets one turn run at a time where the client does not overlap
\* its prompts: two that do may both pass it.
THEOREM OneTurn ==
    ASSUME OneAtATime PROVE AcpSpec => []OneTurnAtATime
<1>1. AcpInv => OneTurnAtATime
  <2> SUFFICES ASSUME AcpInv, NEW p \in Prompts, NEW q \in Prompts, Live(p), Live(q) PROVE p = q
    BY DEF OneTurnAtATime
  <2> QED BY LiveIsTurn DEF Live
<1> QED BY <1>1, AcpKept, PTL

-----------------------------------------------------------------------------
(***************************************************************************)
(* The terminal.  The list of completions is that of the text, or somebody *)
(* is still to be told: a timer, a folder that is being read, or a         *)
(* "changed" on its way.  A key that was told apart as settled finds none  *)
(* of them when it arrives.                                                *)
(***************************************************************************)

\* A sequence of anything; a message by the fields the handlers look at.
Listed(q) == q \in Seq({q[i] : i \in DOMAIN q})
IsMessage(m) == {"type", "settled"} \subseteq DOMAIN m
Messages(q) == Listed(q) /\ \A i \in DOMAIN q : IsMessage(q[i])

Queues == Messages(areaQueue) /\ Messages(inputQueue)

OfferShaped ==
    /\ {"kind", "matches", "selected", "closed"} \subseteq DOMAIN offer
    /\ offer.matches # {} => offer.selected \in offer.matches
    /\ offer.closed => offer.matches = {}
    /\ timer \in BOOLEAN

OfferFits == offer.matches = Matching(Token(text), index)
Reading == build # NoFolder /\ KindOf[Token(text)] = "file"

OfferFollows ==
    OfferFits \/ offer.closed \/ timer \/ Reading \/ Unheard(areaQueue) \/ Unheard(inputQueue)

\* A settled key has nothing before it that would change the list.
KeysFollow ==
    \A i \in DOMAIN inputQueue :
        inputQueue[i].settled /\ inputQueue[i].type \notin {"changed", "submitted"} =>
            ~timer /\ \A j \in 1..(i - 1) : inputQueue[j].type # "changed"

ListInv == Queues /\ OfferShaped /\ OfferFollows /\ KeysFollow /\ misfit = FALSE

HistoryInv ==
    /\ {"lines", "at"} \subseteq DOMAIN past
    /\ Listed(past.lines) /\ past.at \in 0..Len(past.lines)

Decisions == {"nothing", "approve", "auto", "reject"}

MenuInv ==
    /\ menu \in {NoMenu} \cup [open : {TRUE}, outside : BOOLEAN, at : 1..3, reason : BOOLEAN,
                               decided : Decisions]
    /\ menu.open =>
        /\ menu.at \in DOMAIN Options(menu.outside)
        /\ menu.outside => menu.decided # "auto"

\* A flush draws what there was when it began; what came since has its own due.
AnswerInv ==
    /\ answer \in [pieces : Seq({"open", "closed"}), drawn : Nat, timer : BOOLEAN,
                   waiting : Nat, flush : [appends : BOOLEAN, target : Nat], erased : BOOLEAN]
    /\ answer.drawn <= Len(answer.pieces) /\ answer.flush.target <= Len(answer.pieces)
    /\ answer.flush.appends => answer.drawn > 0 /\ answer.pieces[answer.drawn] = "open"
    /\ LET reached == IF answer.flush = NoFlush THEN answer.drawn ELSE answer.flush.target IN
       reached < Len(answer.pieces) => answer.timer \/ answer.waiting > 0
    /\ ~answer.erased

ComposerInv == ListInv /\ HistoryInv /\ MenuInv /\ AnswerInv

LEMMA ListedLength ==
    ASSUME NEW q, Listed(q)
    PROVE  Len(q) \in Nat /\ DOMAIN q = 1..Len(q)
BY LenProperties DEF Listed

LEMMA ListedIn ==
    ASSUME NEW S, NEW q \in Seq(S)
    PROVE  Listed(q)
BY SeqOfRange DEF Range, Listed

LEMMA Appending ==
    ASSUME NEW q, NEW x, Listed(q)
    PROVE  /\ Listed(Append(q, x)) /\ Len(Append(q, x)) = Len(q) + 1
           /\ \A i \in 1..Len(q) : Append(q, x)[i] = q[i]
           /\ Append(q, x)[Len(q) + 1] = x
<1> DEFINE S == {q[i] : i \in DOMAIN q} \cup {x}
<1>1. q \in Seq(S)
  BY SeqMonotonic DEF Listed
<1>2. x \in S
  OBVIOUS
<1> HIDE DEF S
<1>3. /\ Append(q, x) \in Seq(S) /\ Len(Append(q, x)) = Len(q) + 1
      /\ \A i \in 1..Len(q) : Append(q, x)[i] = q[i]
      /\ Append(q, x)[Len(q) + 1] = x
  BY <1>1, <1>2, AppendProperties
<1>4. Listed(Append(q, x))
  BY <1>3, ListedIn
<1> QED BY <1>3, <1>4

LEMMA Taking ==
    ASSUME NEW q, Listed(q), q # <<>>
    PROVE  /\ Len(q) >= 1 /\ Head(q) = q[1]
           /\ Listed(Tail(q)) /\ Len(Tail(q)) = Len(q) - 1
           /\ \A i \in 1..(Len(q) - 1) : Tail(q)[i] = q[i + 1]
<1> DEFINE S == {q[i] : i \in DOMAIN q}
<1>1. q \in Seq(S)
  BY DEF Listed
<1> HIDE DEF S
<1>2. Len(q) \in Nat /\ Len(q) >= 1
  BY <1>1, EmptySeq
<1>3. Tail(q) \in Seq(S) /\ Len(Tail(q)) = Len(q) - 1
  BY <1>1, HeadTailProperties
<1>4. \A i \in 1..(Len(q) - 1) : Tail(q)[i] = q[i + 1]
  BY <1>1, <1>2, HeadTailProperties
<1>5. Head(q) = q[1]
  BY <1>1, <1>2
<1>6. Listed(Tail(q))
  BY <1>3, ListedIn
<1> QED BY <1>2, <1>3, <1>4, <1>5, <1>6

\* A message that is added or taken leaves the others unheard, or not.
LEMMA MessageAdded ==
    ASSUME NEW q, NEW m, Messages(q), IsMessage(m)
    PROVE  /\ Messages(Append(q, m))
           /\ Unheard(Append(q, m)) <=> Unheard(q) \/ m.type = "changed"
<1> DEFINE n == Len(q)
           r == Append(q, m)
<1>1. /\ n \in Nat /\ DOMAIN q = 1..n /\ Listed(r) /\ Len(r) = n + 1 /\ DOMAIN r = 1..(n + 1)
      /\ \A i \in 1..n : r[i] = q[i]
      /\ r[n + 1] = m
  BY Appending, ListedLength DEF Messages
<1> HIDE DEF n, r
<1>2. Messages(r)
  <2>1. ASSUME NEW i \in 1..(n + 1) PROVE IsMessage(r[i])
    <3>1. i \in 1..n \/ i = n + 1
      BY <1>1
    <3> QED BY <1>1, <3>1 DEF Messages
  <2> QED BY <1>1, <2>1 DEF Messages
<1>3. Unheard(r) => Unheard(q) \/ m.type = "changed"
  <2> SUFFICES ASSUME NEW i \in 1..(n + 1), r[i].type = "changed" PROVE Unheard(q) \/ m.type = "changed"
    BY <1>1 DEF Unheard
  <2>1. i \in 1..n \/ i = n + 1
    BY <1>1
  <2> QED BY <1>1, <2>1 DEF Unheard
<1>4. Unheard(q) => Unheard(r)
  <2> SUFFICES ASSUME NEW i \in 1..n, q[i].type = "changed" PROVE Unheard(r)
    BY <1>1 DEF Unheard
  <2>1. i \in 1..(n + 1) /\ r[i] = q[i]
    BY <1>1
  <2> QED BY <1>1, <2>1 DEF Unheard
<1>5. m.type = "changed" => Unheard(r)
  <2>1. n + 1 \in DOMAIN r
    BY <1>1
  <2> QED BY <1>1, <2>1 DEF Unheard
<1> QED BY <1>2, <1>3, <1>4, <1>5 DEF r

LEMMA MessageTaken ==
    ASSUME NEW q, Messages(q), q # <<>>
    PROVE  /\ IsMessage(Head(q)) /\ Messages(Tail(q))
           /\ Unheard(q) <=> Head(q).type = "changed" \/ Unheard(Tail(q))
<1> DEFINE n == Len(q)
           r == Tail(q)
<1>1. /\ n \in Nat /\ n >= 1 /\ DOMAIN q = 1..n /\ Listed(r) /\ DOMAIN r = 1..(n - 1)
      /\ Head(q) = q[1] /\ \A i \in 1..(n - 1) : r[i] = q[i + 1]
  BY Taking, ListedLength DEF Messages
<1> HIDE DEF n, r
<1>2. IsMessage(q[1])
  BY <1>1 DEF Messages
<1>3. Messages(r)
  <2>1. ASSUME NEW i \in 1..(n - 1) PROVE IsMessage(r[i])
    <3>1. i + 1 \in DOMAIN q /\ r[i] = q[i + 1]
      BY <1>1
    <3> QED BY <3>1 DEF Messages
  <2> QED BY <1>1, <2>1 DEF Messages
<1>4. Unheard(q) => q[1].type = "changed" \/ Unheard(r)
  <2> SUFFICES ASSUME NEW i \in 1..n, q[i].type = "changed", i # 1 PROVE Unheard(r)
    BY <1>1 DEF Unheard
  <2>1. i - 1 \in DOMAIN r /\ r[i - 1] = q[(i - 1) + 1] /\ (i - 1) + 1 = i
    BY <1>1
  <2> QED BY <2>1 DEF Unheard
<1>5. Unheard(r) => Unheard(q)
  <2> SUFFICES ASSUME NEW i \in 1..(n - 1), r[i].type = "changed" PROVE Unheard(q)
    BY <1>1 DEF Unheard
  <2>1. i + 1 \in DOMAIN q /\ r[i] = q[i + 1]
    BY <1>1
  <2> QED BY <2>1 DEF Unheard
<1>6. q[1].type = "changed" => Unheard(q)
  BY <1>1 DEF Unheard
<1> QED BY <1>1, <1>2, <1>3, <1>4, <1>5, <1>6 DEF r

\* Whoever writes the text says so, and what is submitted is said after it.
LEMMA WritesSays ==
    ASSUME NEW words, NEW q, Messages(q), Writes(words, q)
    PROVE  Messages(areaQueue') /\ Unheard(areaQueue')
<1>1. IsMessage(Changed) /\ Changed.type = "changed"
  BY DEF IsMessage, Changed
<1>2. areaQueue' = Append(q, Changed)
  <2>1. q \in Seq({q[i] : i \in DOMAIN q} \cup {Changed})
    BY SeqMonotonic DEF Messages, Listed
  <2> QED BY <2>1, AppendIsConcat DEF Writes
<1> QED BY <1>1, <1>2, MessageAdded

LEMMA SubmitsSays ==
    ASSUME NEW words, NEW q, Messages(q), Submits(words, q)
    PROVE  /\ Messages(areaQueue')
           /\ Unheard(areaQueue') \/ (text' = words /\ areaQueue' = q)
<1>1. CASE Words(words) = <<>>
  BY <1>1 DEF Submits
<1>2. CASE Words(words) # <<>>
  <2> DEFINE post == Said(Words(words))
             once == Append(q, Changed)
  <2>1. areaQueue' = q \o <<Changed, post>>
    BY <1>2 DEF Submits
  <2>2. /\ IsMessage(Changed) /\ Changed.type = "changed"
        /\ IsMessage(post)
    BY DEF IsMessage, Changed, Said
  <2>3. q \in Seq({q[i] : i \in DOMAIN q} \cup {Changed, post})
    BY SeqMonotonic DEF Messages, Listed
  <2> HIDE DEF post
  <2>4. q \o <<Changed, post>> = Append(once, post)
    BY <2>3
  <2>5. Messages(once) /\ Unheard(once)
    BY <2>2, MessageAdded
  <2> HIDE DEF once
  <2> QED BY <2>1, <2>2, <2>4, <2>5, MessageAdded
<1> QED BY <1>1, <1>2

\* A list that is filtered again is that of the token.
LEMMA RefreshedFits ==
    ASSUME OfferShaped, NEW token, NEW paths, NEW o \in Refreshed(token, paths)
    PROVE  /\ {"kind", "matches", "selected", "closed"} \subseteq DOMAIN o
           /\ o.matches = Matching(token, paths) /\ o.closed = FALSE
           /\ o.matches # {} => o.selected \in o.matches
<1> DEFINE found == Matching(token, paths)
           kind == KindOf[token]
           same == (found = {} /\ offer.matches = {}) \/ (kind = offer.kind /\ found = offer.matches)
<1>1. CASE same
  <2>1. o = [offer EXCEPT !.kind = kind, !.closed = FALSE]
    BY <1>1 DEF Refreshed
  <2>2. offer.matches = found
    BY <1>1
  <2> HIDE DEF found, kind, same
  <2> QED BY <2>1, <2>2 DEF OfferShaped, found
<1>2. CASE ~same
  <2>1. PICK one \in IF found = {} THEN {""} ELSE found :
             o = [kind |-> kind, matches |-> found, selected |-> one, closed |-> FALSE]
    BY <1>2 DEF Refreshed
  <2> HIDE DEF found, kind, same
  <2> QED BY <2>1 DEF found
<1> QED BY <1>1, <1>2

\* What the list goes by, where the queues are told apart.
listed == <<offer, timer, index, build, misfit>>

\* The list stays, and whoever was to be told still is, or there is somebody new.
LEMMA ListStays ==
    ASSUME ListInv, UNCHANGED listed, Messages(areaQueue'), Messages(inputQueue'),
           \/ Unheard(areaQueue')
           \/ text' = text /\ (Unheard(areaQueue) => Unheard(areaQueue') \/ Unheard(inputQueue')),
           Unheard(inputQueue) => Unheard(inputQueue'),
           KeysFollow'
    PROVE  ListInv'
<1>1. /\ UNCHANGED offer /\ UNCHANGED timer /\ UNCHANGED index /\ UNCHANGED build /\ UNCHANGED misfit
  BY DEF listed
<1>2. OfferFollows'
  BY <1>1 DEF ListInv, OfferFollows, OfferFits, Reading
<1>3. OfferShaped'
  BY <1>1 DEF ListInv, OfferShaped
<1> QED BY <1>1, <1>2, <1>3 DEF ListInv, Queues

\* The list was filtered: nobody else needs to be told of the text as it is.
LEMMA ListFits ==
    ASSUME ListInv, NEW paths, offer' \in Refreshed(Token(text), paths), index' = paths,
           UNCHANGED text, timer' \in BOOLEAN, UNCHANGED misfit,
           Messages(areaQueue'), Messages(inputQueue'), KeysFollow'
    PROVE  ListInv'
<1>1. /\ {"kind", "matches", "selected", "closed"} \subseteq DOMAIN offer'
      /\ offer'.matches = Matching(Token(text), paths) /\ offer'.closed = FALSE
      /\ offer'.matches # {} => offer'.selected \in offer'.matches
  BY RefreshedFits DEF ListInv
<1>2. OfferShaped'
  BY <1>1 DEF OfferShaped
<1>3. OfferFollows'
  BY <1>1 DEF OfferFollows, OfferFits
<1> QED BY <1>2, <1>3 DEF ListInv, Queues

LEMMA KeysStay ==
    ASSUME KeysFollow, UNCHANGED inputQueue, timer' = timer \/ timer' = FALSE
    PROVE  KeysFollow'
BY DEF KeysFollow

\* A message is taken from the composer's queue.
LEMMA KeysTaken ==
    ASSUME ListInv, inputQueue # <<>>, inputQueue' = Tail(inputQueue)
    PROVE  /\ Messages(inputQueue')
           /\ timer' = timer => KeysFollow'
           /\ Head(inputQueue).type = "changed" => KeysFollow'
<1> DEFINE n == Len(inputQueue)
<1>1. /\ n \in Nat /\ n >= 1 /\ DOMAIN inputQueue = 1..n /\ DOMAIN inputQueue' = 1..(n - 1)
      /\ Head(inputQueue) = inputQueue[1]
      /\ \A i \in 1..(n - 1) : inputQueue'[i] = inputQueue[i + 1]
  BY Taking, ListedLength DEF ListInv, Queues, Messages
<1> HIDE DEF n
<1>2. ASSUME NEW i \in 1..(n - 1),
             inputQueue'[i].settled, inputQueue'[i].type \notin {"changed", "submitted"}
      PROVE  /\ ~timer /\ Head(inputQueue).type # "changed"
             /\ \A j \in 1..(i - 1) : inputQueue'[j].type # "changed"
  <2>1. i + 1 \in 1..n /\ inputQueue'[i] = inputQueue[i + 1]
    BY <1>1
  <2>2. ~timer /\ \A j \in 1..((i + 1) - 1) : inputQueue[j].type # "changed"
    BY <1>1, <1>2, <2>1 DEF ListInv, KeysFollow
  <2>3. \A j \in 1..(i - 1) : inputQueue'[j].type # "changed"
    <3> SUFFICES ASSUME NEW j \in 1..(i - 1) PROVE inputQueue'[j].type # "changed"
      OBVIOUS
    <3>1. j \in 1..(n - 1) /\ j + 1 \in 1..((i + 1) - 1)
      BY <1>1
    <3> QED BY <1>1, <2>2, <3>1
  <2>4. 1 \in 1..((i + 1) - 1)
    BY <1>1
  <2> QED BY <1>1, <2>2, <2>3, <2>4
<1>3. timer' = timer => KeysFollow'
  BY <1>1, <1>2 DEF KeysFollow
<1>4. Head(inputQueue).type = "changed" => KeysFollow'
  BY <1>1, <1>2 DEF KeysFollow
<1> QED BY <1>3, <1>4, MessageTaken DEF ListInv, Queues

\* A message is added to the composer's queue; a settled key finds the list as it is.
LEMMA KeysAdded ==
    ASSUME ListInv, NEW m, IsMessage(m), inputQueue' = Append(inputQueue, m),
           timer' = timer \/ timer' = FALSE,
           m.settled /\ m.type \notin {"changed", "submitted"} => ~timer' /\ ~Unheard(inputQueue)
    PROVE  KeysFollow'
<1> DEFINE n == Len(inputQueue)
<1>1. /\ n \in Nat /\ DOMAIN inputQueue = 1..n /\ DOMAIN inputQueue' = 1..(n + 1)
      /\ inputQueue'[n + 1] = m
      /\ \A i \in 1..n : inputQueue'[i] = inputQueue[i]
  BY Appending, ListedLength DEF ListInv, Queues, Messages
<1> HIDE DEF n
<1>2. SUFFICES ASSUME NEW i \in 1..(n + 1),
                      inputQueue'[i].settled, inputQueue'[i].type \notin {"changed", "submitted"}
               PROVE  ~timer' /\ \A j \in 1..(i - 1) : inputQueue'[j].type # "changed"
  BY <1>1 DEF KeysFollow
<1>3. \A j \in 1..(i - 1) : j \in 1..n /\ inputQueue'[j] = inputQueue[j]
  BY <1>1
<1>4. CASE i = n + 1
  <2>1. ~timer' /\ ~Unheard(inputQueue)
    BY <1>1, <1>2, <1>4
  <2> QED BY <1>1, <1>3, <2>1 DEF Unheard
<1>5. CASE i # n + 1
  <2>1. i \in 1..n /\ inputQueue'[i] = inputQueue[i]
    BY <1>1, <1>5
  <2>2. ~timer /\ \A j \in 1..(i - 1) : inputQueue[j].type # "changed"
    BY <1>1, <1>2, <2>1 DEF ListInv, KeysFollow
  <2>3. \A j \in 1..(i - 1) : inputQueue'[j].type # "changed"
    BY <1>3, <2>2
  <2>4. ~timer'
    BY <2>2 DEF ListInv, OfferShaped
  <2> QED BY <2>3, <2>4
<1> QED BY <1>4, <1>5

LEMMA PressKeeps ==
    ASSUME ListInv, NEW type, NEW value, Press(type, value)
    PROVE  ListInv'
<1> DEFINE m == [type |-> type, value |-> value, settled |-> FALSE]
<1>1. /\ areaQueue' = Append(areaQueue, m) /\ UNCHANGED text /\ UNCHANGED inputQueue
      /\ UNCHANGED listed
  BY DEF Press, listed
<1>2. IsMessage(m)
  BY DEF IsMessage
<1> HIDE DEF m
<1>3. Messages(areaQueue') /\ (Unheard(areaQueue) => Unheard(areaQueue'))
  BY <1>1, <1>2, MessageAdded DEF ListInv, Queues
<1>4. Messages(inputQueue') /\ (Unheard(inputQueue) => Unheard(inputQueue')) /\ KeysFollow'
  BY <1>1, KeysStay DEF ListInv, Queues, listed
<1> QED BY <1>1, <1>3, <1>4, ListStays

\* A key finds the list filtered, or as it was.
LEMMA KeyFlushes ==
    ASSUME ListInv, NEW type, offer' \in Flushed(type), timer' = (timer /\ type \notin ListKeys)
    PROVE  /\ \/ offer' = offer /\ timer' = timer
              \/ offer' \in Refreshed(Token(text), index) /\ timer' = FALSE
           /\ type \in ListKeys => timer' = FALSE
<1>1. timer \in BOOLEAN
  BY DEF ListInv, OfferShaped
<1>2. CASE type \in ListKeys /\ timer
  BY <1>1, <1>2 DEF Flushed
<1>3. CASE ~(type \in ListKeys /\ timer)
  BY <1>1, <1>3 DEF Flushed
<1> QED BY <1>2, <1>3

\* The key is passed on to the composer, or changes the text, or changes nothing.
LEMMA AreaKeyDoes ==
    ASSUME NEW message, IsMessage(message), NEW rest, Messages(rest), AreaKey(message, rest),
           message.type \notin {"changed", "submitted"}
    PROVE  /\ Messages(areaQueue')
           /\ Unheard(areaQueue') \/ (text' = text /\ areaQueue' = rest)
           /\ \/ UNCHANGED inputQueue
              \/ \E settled \in BOOLEAN : LET m == [message EXCEPT !.settled = settled] IN
                    /\ inputQueue' = Append(inputQueue, m)
                    /\ settled => ~Unheard(inputQueue)
                    /\ message.type \in ListKeys
<1>1. CASE ToInput(message, rest) /\ message.type \in ListKeys
  <2> DEFINE settled == ~Unheard(rest) /\ ~Unheard(inputQueue)
  <2>1. /\ inputQueue' = Append(inputQueue, [message EXCEPT !.settled = settled])
        /\ areaQueue' = rest /\ UNCHANGED text
    BY <1>1 DEF ToInput
  <2>2. settled \in BOOLEAN
    BY DEF Unheard
  <2> HIDE DEF settled
  <2>3. settled => ~Unheard(inputQueue)
    BY DEF settled
  <2> QED BY <1>1, <2>1, <2>2, <2>3
<1>2. CASE Submits(text, rest) /\ UNCHANGED inputQueue
  BY <1>2, SubmitsSays
<1>3. ASSUME NEW words, Writes(words, rest), UNCHANGED inputQueue
      PROVE  /\ Messages(areaQueue') /\ Unheard(areaQueue')
             /\ UNCHANGED inputQueue
  BY <1>3, WritesSays
<1>4. CASE offer'.matches # {} /\ message.type \in ListKeys
  BY <1>1, <1>4 DEF AreaKey
<1>5. CASE ~(offer'.matches # {} /\ message.type \in ListKeys)
  <2>1. CASE message.type = "enter" /\ Submits(text, rest) /\ UNCHANGED inputQueue
    BY <1>2, <2>1
  <2>2. CASE Recall(message.type, rest) /\ UNCHANGED inputQueue
    BY <1>3, <2>2 DEF Recall
  <2>3. CASE Types(message.value[1], rest) /\ UNCHANGED inputQueue
    BY <1>3, <2>3 DEF Types
  <2>4. CASE Writes(text \o <<"">>, rest) /\ UNCHANGED inputQueue
    BY <1>3, <2>4
  <2>5. CASE message.type \in {"tab", "escape", "up", "down"} /\ ToInput(message, rest)
    BY <1>1, <2>5 DEF ListKeys
  <2> QED BY <1>5, <2>1, <2>2, <2>3, <2>4, <2>5 DEF AreaKey
<1> QED BY <1>4, <1>5

LEMMA AreaTakesKeeps ==
    ASSUME ListInv, AreaTakes
    PROVE  ListInv'
<1> DEFINE message == Head(areaQueue)
           rest == Tail(areaQueue)
<1>1. /\ areaQueue # <<>> /\ UNCHANGED index /\ UNCHANGED build /\ UNCHANGED misfit
  BY DEF AreaTakes
<1>2. /\ IsMessage(message) /\ Messages(rest)
      /\ Unheard(areaQueue) <=> message.type = "changed" \/ Unheard(rest)
  BY <1>1, MessageTaken DEF ListInv, Queues
<1>3. CASE message.type \in {"changed", "submitted"}
  <2>1. /\ inputQueue' = Append(inputQueue, message) /\ areaQueue' = rest /\ UNCHANGED text
        /\ UNCHANGED listed
    BY <1>1, <1>3 DEF AreaTakes, listed
  <2>2. /\ Messages(inputQueue')
        /\ Unheard(inputQueue') <=> Unheard(inputQueue) \/ message.type = "changed"
    BY <1>2, <2>1, MessageAdded DEF ListInv, Queues
  <2>3. timer' = timer
    BY <2>1 DEF listed
  <2> HIDE DEF message, rest
  <2>4. KeysFollow'
    BY <1>2, <1>3, <2>1, <2>3, KeysAdded
  <2> QED BY <1>2, <2>1, <2>2, <2>4, ListStays
<1>4. CASE message.type \notin {"changed", "submitted"}
  <2>1. AreaKey(message, rest)
    BY <1>4 DEF AreaTakes
  <2>2. offer' \in Flushed(message.type) /\ timer' = (timer /\ message.type \notin ListKeys)
    BY <2>1 DEF AreaKey
  <2> HIDE DEF message, rest
  <2>3. /\ \/ offer' = offer /\ timer' = timer
           \/ offer' \in Refreshed(Token(text), index) /\ timer' = FALSE
        /\ message.type \in ListKeys => timer' = FALSE
    BY <2>2, KeyFlushes
  <2>4. /\ Messages(areaQueue')
        /\ Unheard(areaQueue') \/ (text' = text /\ areaQueue' = rest)
        /\ \/ UNCHANGED inputQueue
           \/ \E settled \in BOOLEAN : LET m == [message EXCEPT !.settled = settled] IN
                 /\ inputQueue' = Append(inputQueue, m)
                 /\ settled => ~Unheard(inputQueue)
                 /\ message.type \in ListKeys
    BY <1>2, <1>4, <2>1, AreaKeyDoes
  <2>5. /\ Messages(inputQueue') /\ KeysFollow'
        /\ Unheard(inputQueue) => Unheard(inputQueue')
    <3>1. CASE UNCHANGED inputQueue
      BY <2>3, <3>1, KeysStay DEF ListInv, Queues
    <3>2. ASSUME NEW settled \in BOOLEAN, NEW m, m = [message EXCEPT !.settled = settled],
                 inputQueue' = Append(inputQueue, m), settled => ~Unheard(inputQueue),
                 message.type \in ListKeys
          PROVE  /\ Messages(inputQueue') /\ KeysFollow'
                 /\ Unheard(inputQueue) => Unheard(inputQueue')
      <4>1. IsMessage(m) /\ m.settled = settled
        BY <1>2, <3>2 DEF IsMessage
      <4>2. timer' = FALSE
        BY <2>3, <3>2
      <4>3. KeysFollow'
        BY <3>2, <4>1, <4>2, KeysAdded
      <4> QED BY <3>2, <4>1, <4>3, MessageAdded DEF ListInv, Queues
    <3> QED BY <2>4, <3>1, <3>2
  <2>6. CASE offer' = offer /\ timer' = timer
    <3>1. UNCHANGED listed
      BY <1>1, <2>6 DEF listed
    <3>2. \/ Unheard(areaQueue')
          \/ text' = text /\ (Unheard(areaQueue) => Unheard(areaQueue') \/ Unheard(inputQueue'))
      BY <1>2, <1>4, <2>4
    <3> QED BY <2>4, <2>5, <3>1, <3>2, ListStays
  <2>7. CASE offer' \in Refreshed(Token(text), index) /\ timer' = FALSE
    <3>1. CASE Unheard(areaQueue')
      <4>1. OfferShaped'
        BY <2>7, RefreshedFits DEF ListInv, OfferShaped
      <4>2. OfferFollows'
        BY <3>1 DEF OfferFollows
      <4> QED BY <1>1, <2>4, <2>5, <4>1, <4>2 DEF ListInv, Queues
    <3>2. CASE text' = text
      BY <1>1, <2>4, <2>5, <2>7, <3>2, ListFits
    <3> QED BY <2>4, <3>1, <3>2
  <2> QED BY <2>3, <2>6, <2>7
<1> QED BY <1>3, <1>4

LEMMA NoticesKeeps ==
    ASSUME ListInv, inputQueue # <<>>, Head(inputQueue).type = "changed", Notices,
           inputQueue' = Tail(inputQueue), UNCHANGED text, UNCHANGED areaQueue
    PROVE  ListInv'
<1>1. Messages(areaQueue') /\ Messages(inputQueue') /\ KeysFollow'
  BY KeysTaken DEF ListInv, Queues
<1>2. UNCHANGED index /\ UNCHANGED misfit
  BY DEF Notices
<1>3. CASE KindOf[Token(text)] = "file" /\ index.read
  <2>1. timer' = TRUE /\ UNCHANGED offer
    BY <1>3 DEF Notices
  <2>2. OfferShaped' /\ OfferFollows'
    BY <2>1 DEF ListInv, OfferShaped, OfferFollows
  <2> QED BY <1>1, <1>2, <2>2 DEF ListInv, Queues
<1>4. CASE ~(KindOf[Token(text)] = "file" /\ index.read)
  <2>1. timer' = FALSE /\ offer' \in Refreshed(Token(text), index)
    BY <1>4 DEF Notices
  <2> QED BY <1>1, <1>2, <2>1, ListFits
<1> QED BY <1>3, <1>4

\* What a settled key accepts is of the list of the text: nothing was on its way
\* when it was told apart, and nothing is now.
LEMMA AcceptsAMatch ==
    ASSUME ListInv, inputQueue # <<>>, NEW message, message = Head(inputQueue),
           message.type \notin {"changed", "submitted"}, message.settled,
           ~Unheard(Tail(inputQueue)), ~Unheard(areaQueue), build = NoFolder, offer.matches # {}
    PROVE  offer.selected \in Matching(Token(text), index)
<1>1. /\ Head(inputQueue) = inputQueue[1] /\ 1 \in DOMAIN inputQueue
  BY Taking, ListedLength DEF ListInv, Queues, Messages
<1>2. ~timer
  BY <1>1 DEF ListInv, KeysFollow
<1>3. ~Unheard(inputQueue)
  BY MessageTaken DEF ListInv, Queues
<1>4. OfferFits
  BY <1>2, <1>3 DEF ListInv, OfferFollows, OfferShaped, Reading
<1> QED BY <1>4 DEF OfferFits, ListInv, OfferShaped

\* The list is closed, and the text area is told of the text that was completed.
LEMMA AcceptsKeeps ==
    ASSUME ListInv, inputQueue # <<>>, NEW message, message = Head(inputQueue),
           message.type \notin {"changed", "submitted"}, offer.matches # {},
           Accepts(message, Tail(inputQueue)), inputQueue' = Tail(inputQueue),
           UNCHANGED timer, UNCHANGED index, UNCHANGED build
    PROVE  ListInv'
<1>1. misfit' = FALSE
  <2> DEFINE certain == message.settled /\ ~Unheard(Tail(inputQueue)) /\ ~Unheard(areaQueue) /\ build = NoFolder
             fits == offer.selected \in Matching(Token(text), index)
  <2>1. misfit' = (misfit \/ (certain /\ ~fits))
    BY DEF Accepts
  <2>2. certain => fits
    BY AcceptsAMatch
  <2> HIDE DEF certain, fits
  <2> QED BY <2>1, <2>2 DEF ListInv
<1>2. offer' = ClosedList
  BY DEF Accepts
<1>3. OfferShaped' /\ OfferFollows'
  <2>1. /\ {"kind", "matches", "selected", "closed"} \subseteq DOMAIN ClosedList
        /\ ClosedList.matches = {} /\ ClosedList.closed
    BY DEF ClosedList, Empty
  <2> QED BY <1>2, <2>1 DEF ListInv, OfferShaped, OfferFollows
<1>4. Messages(areaQueue')
  <2>1. Messages(Append(areaQueue, Changed))
    BY MessageAdded DEF ListInv, Queues, IsMessage, Changed
  <2>2. CASE Submits(Completed(FALSE), Append(areaQueue, Changed))
    BY <2>1, <2>2, SubmitsSays
  <2>3. CASE Writes(Completed(TRUE), areaQueue)
    BY <2>3, WritesSays DEF ListInv, Queues
  <2> QED BY <2>2, <2>3 DEF Accepts
<1> QED BY <1>1, <1>3, <1>4, KeysTaken DEF ListInv, Queues

LEMMA InputKeyKeeps ==
    ASSUME ListInv, inputQueue # <<>>, NEW message, message = Head(inputQueue),
           message.type \notin {"changed", "submitted"},
           InputKey(message, Tail(inputQueue)), inputQueue' = Tail(inputQueue)
    PROVE  ListInv'
<1>1. UNCHANGED timer /\ UNCHANGED index /\ UNCHANGED build
  BY DEF InputKey
<1>2. /\ Messages(inputQueue') /\ KeysFollow'
      /\ Unheard(inputQueue) => Unheard(inputQueue')
  BY <1>1, KeysTaken, MessageTaken DEF ListInv, Queues
<1>3. CASE UNCHANGED <<text, areaQueue, focus, misfit>> /\ UNCHANGED offer
  <2>1. UNCHANGED listed /\ Messages(areaQueue')
    BY <1>1, <1>3 DEF listed, ListInv, Queues
  <2> QED BY <1>2, <1>3, <2>1, ListStays
<1>4. ASSUME NEW one \in offer.matches, offer' = [offer EXCEPT !.selected = one],
             UNCHANGED <<text, areaQueue, focus, misfit>>
      PROVE  ListInv'
  <2>1. /\ {"kind", "matches", "selected", "closed"} \subseteq DOMAIN offer'
        /\ offer'.matches = offer.matches /\ offer'.closed = offer.closed /\ offer'.selected = one
    BY <1>4 DEF ListInv, OfferShaped
  <2>2. OfferShaped'
    BY <1>1, <2>1 DEF ListInv, OfferShaped
  <2>3. OfferFollows'
    BY <1>1, <1>2, <1>4, <2>1 DEF ListInv, OfferFollows, OfferFits, Reading
  <2> QED BY <1>2, <1>4, <2>2, <2>3 DEF ListInv, Queues
<1>5. CASE offer' = ClosedList /\ UNCHANGED <<text, areaQueue, focus, misfit>>
  <2>1. /\ {"kind", "matches", "selected", "closed"} \subseteq DOMAIN ClosedList
        /\ ClosedList.matches = {} /\ ClosedList.closed
    BY DEF ClosedList, Empty
  <2>2. OfferShaped' /\ OfferFollows'
    BY <1>1, <1>5, <2>1 DEF ListInv, OfferShaped, OfferFollows
  <2> QED BY <1>2, <1>5, <2>2 DEF ListInv, Queues
<1>6. CASE offer.matches # {} /\ Accepts(message, Tail(inputQueue))
  BY <1>1, <1>6, AcceptsKeeps
<1>7. CASE Writes(text \o <<"">>, areaQueue) /\ UNCHANGED <<offer, focus, misfit>>
  <2>1. UNCHANGED listed
    BY <1>1, <1>7 DEF listed
  <2>2. Messages(areaQueue') /\ Unheard(areaQueue')
    BY <1>7, WritesSays DEF ListInv, Queues
  <2> QED BY <1>2, <2>1, <2>2, ListStays
<1> QED BY <1>3, <1>4, <1>5, <1>6, <1>7 DEF InputKey

LEMMA InputTakesKeeps ==
    ASSUME ListInv, InputTakes
    PROVE  ListInv'
<1> DEFINE message == Head(inputQueue)
<1>1. inputQueue # <<>> /\ inputQueue' = Tail(inputQueue)
  BY DEF InputTakes
<1>2. CASE message.type = "changed" /\ Notices /\ UNCHANGED <<text, areaQueue, focus, past, sent>>
  BY <1>1, <1>2, NoticesKeeps
<1>3. CASE message.type = "submitted" /\ UNCHANGED <<text, areaQueue, focus, lists>>
  <2>1. UNCHANGED listed
    BY <1>3 DEF lists, listed
  <2>2. timer' = timer
    BY <2>1 DEF listed
  <2>3. Messages(areaQueue') /\ Messages(inputQueue') /\ KeysFollow'
    BY <1>1, <1>3, <2>2, KeysTaken DEF ListInv, Queues
  <2>4. Unheard(inputQueue) => Unheard(inputQueue')
    BY <1>1, <1>3, MessageTaken DEF ListInv, Queues
  <2>5. text' = text /\ (Unheard(areaQueue) => Unheard(areaQueue'))
    BY <1>3
  <2> QED BY <2>1, <2>3, <2>4, <2>5, ListStays
<1>4. CASE message.type \notin {"changed", "submitted"} /\ InputKey(message, Tail(inputQueue))
  BY <1>1, <1>4, InputKeyKeeps
<1> QED BY <1>2, <1>3, <1>4 DEF InputTakes

\* The timer and the index.
LEMMA FilteringKeeps ==
    ASSUME ListInv, TimerFires \/ BuildEnds \/ IndexAges \/ \E new \in Folders : SetCwd(new)
    PROVE  ListInv'
<1>1. /\ UNCHANGED text /\ UNCHANGED areaQueue /\ UNCHANGED inputQueue /\ UNCHANGED misfit
      /\ Messages(areaQueue') /\ Messages(inputQueue')
  BY DEF ListInv, Queues, TimerFires, BuildEnds, IndexAges, SetCwd
<1>2. timer' \in BOOLEAN /\ (timer' = timer \/ timer' = FALSE)
  BY DEF ListInv, OfferShaped, TimerFires, BuildEnds, IndexAges, SetCwd
<1>3. KeysFollow'
  BY <1>1, <1>2, KeysStay DEF ListInv
<1>4. CASE TimerFires
  BY <1>1, <1>2, <1>3, <1>4, ListFits DEF TimerFires
<1>5. CASE BuildEnds
  <2> DEFINE paths == [read |-> TRUE, files |-> Contents[build], fresh |-> TRUE]
  <2>1. index' = paths
    BY <1>5 DEF BuildEnds
  <2>2. CASE KindOf[Token(text)] = "file"
    <3>1. offer' \in Refreshed(Token(text), paths)
      BY <1>5, <2>2 DEF BuildEnds
    <3> HIDE DEF paths
    <3> QED BY <1>1, <1>2, <1>3, <2>1, <3>1, ListFits
  <2>3. CASE KindOf[Token(text)] # "file"
    <3>1. UNCHANGED offer /\ UNCHANGED timer
      BY <1>5, <2>3 DEF BuildEnds
    <3>2. Matching(Token(text), index') = Matching(Token(text), index)
      BY <2>3 DEF Matching
    <3>3. OfferShaped'
      BY <3>1 DEF ListInv, OfferShaped
    <3>4. OfferFollows'
      BY <1>1, <2>3, <3>1, <3>2 DEF ListInv, OfferFollows, OfferFits, Reading
    <3> QED BY <1>1, <1>3, <3>3, <3>4 DEF ListInv, Queues
  <2> QED BY <2>2, <2>3
<1>6. CASE IndexAges
  <2>1. /\ index.read /\ index' = [index EXCEPT !.fresh = FALSE]
        /\ UNCHANGED offer /\ UNCHANGED timer /\ UNCHANGED build
    BY <1>6 DEF IndexAges, IndexIsCurrent
  <2>2. Matching(Token(text), index') = Matching(Token(text), index)
    BY <2>1 DEF Matching
  <2>3. OfferShaped'
    BY <2>1 DEF ListInv, OfferShaped
  <2>4. OfferFollows'
    BY <1>1, <2>1, <2>2 DEF ListInv, OfferFollows, OfferFits, Reading
  <2> QED BY <1>1, <1>3, <2>3, <2>4 DEF ListInv, Queues
<1>7. ASSUME NEW new \in Folders, SetCwd(new)
      PROVE  ListInv'
  <2>1. build' = new /\ build' # NoFolder /\ UNCHANGED offer /\ UNCHANGED timer
    BY <1>7, ComposerAssumption DEF SetCwd
  <2>2. KindOf[Token(text)] # "file" => Matching(Token(text), index') = Matching(Token(text), index)
    BY DEF Matching
  <2>3. OfferShaped'
    BY <2>1 DEF ListInv, OfferShaped
  <2>4. OfferFollows'
    BY <1>1, <2>1, <2>2 DEF ListInv, OfferFollows, OfferFits, Reading
  <2> QED BY <1>1, <1>3, <2>3, <2>4 DEF ListInv, Queues
<1> QED BY <1>4, <1>5, <1>6, <1>7

\* The panel and the menu write as the text area does, or not at all.
LEMMA PanelsKeep ==
    ASSUME ListInv,
           PanelOpens \/ PanelKey \/ MenuCloses \/ (\E outside \in BOOLEAN : MenuOpens(outside))
             \/ \E key : MenuKey(key)
    PROVE  ListInv'
<1>1. UNCHANGED listed /\ UNCHANGED inputQueue
  BY DEF PanelOpens, PanelKey, MenuCloses, MenuOpens, MenuKey, unmoved, lists, listed
<1>2. KeysFollow' /\ Messages(inputQueue') /\ (Unheard(inputQueue) => Unheard(inputQueue'))
  BY <1>1, KeysStay DEF listed, ListInv, Queues
<1>3. CASE UNCHANGED <<text, areaQueue>>
  <2>1. Messages(areaQueue') /\ (Unheard(areaQueue) => Unheard(areaQueue')) /\ text' = text
    BY <1>3 DEF ListInv, Queues
  <2> QED BY <1>1, <1>2, <2>1, ListStays
<1>4. ASSUME NEW token \in Typed, Types(token, areaQueue)
      PROVE  ListInv'
  <2>1. Messages(areaQueue') /\ Unheard(areaQueue')
    BY <1>4, WritesSays DEF Types, ListInv, Queues
  <2> QED BY <1>1, <1>2, <2>1, ListStays
<1> QED BY <1>3, <1>4 DEF PanelOpens, PanelKey, MenuCloses, MenuOpens, MenuKey, unmoved

LEMMA ListStart == ComposerInit => ListInv
<1> SUFFICES ASSUME ComposerInit PROVE ListInv
  OBVIOUS
<1>1. /\ text = <<>> /\ areaQueue = <<>> /\ inputQueue = <<>> /\ offer = Empty /\ timer = FALSE
      /\ misfit = FALSE
  BY DEF ComposerInit
<1>2. Messages(<<>>) /\ DOMAIN <<>> = {}
  BY DEF Messages, Listed
<1>3. OfferShaped
  BY <1>1 DEF OfferShaped, Empty
<1>4. Matching(Token(text), index) = {}
  BY <1>1, ComposerAssumption DEF Token, Matching
<1>5. OfferFollows
  BY <1>1, <1>4 DEF OfferFollows, OfferFits, Empty
<1> QED BY <1>1, <1>2, <1>3, <1>5 DEF ListInv, Queues, KeysFollow

\* An answer that streams in has nothing to do with the list.
LEMMA ListKept == ListInv /\ [ComposerNext \/ AnswerNext]_composerVars => ListInv'
<1> SUFFICES ASSUME ListInv, [ComposerNext \/ AnswerNext]_composerVars PROVE ListInv'
  OBVIOUS
<1>1. CASE UNCHANGED <<text, areaQueue, inputQueue, offer, timer, index, build, misfit>>
  BY <1>1 DEF ListInv, Queues, OfferShaped, OfferFollows, OfferFits, Reading, KeysFollow
<1>2. CASE AnswerNext \/ UNCHANGED composerVars
  BY <1>1, <1>2 DEF AnswerNext, lists, composerVars
<1>3. CASE \E type, value : Press(type, value)
  BY <1>3, PressKeeps
<1>4. CASE AreaTakes
  BY <1>4, AreaTakesKeeps
<1>5. CASE InputTakes
  BY <1>5, InputTakesKeeps
<1>6. CASE TimerFires \/ BuildEnds \/ IndexAges \/ \E new \in Folders : SetCwd(new)
  BY <1>6, FilteringKeeps
<1>7. CASE \/ PanelOpens \/ PanelKey \/ MenuCloses
           \/ \E outside \in BOOLEAN : MenuOpens(outside)
           \/ \E key : MenuKey(key)
  BY <1>7, PanelsKeep
<1> QED BY <1>2, <1>3, <1>4, <1>5, <1>6, <1>7 DEF ComposerNext

-----------------------------------------------------------------------------
(* The history, the menu and the answer *)

LEMMA HistoryKept == HistoryInv /\ [ComposerNext \/ AnswerNext]_composerVars => HistoryInv'
<1> SUFFICES ASSUME HistoryInv, [ComposerNext \/ AnswerNext]_composerVars PROVE HistoryInv'
  OBVIOUS
<1> DEFINE n == Len(past.lines)
<1>1. n \in Nat
  BY ListedLength DEF HistoryInv
<1>2. CASE UNCHANGED past
  BY <1>2 DEF HistoryInv
<1>3. ASSUME NEW step, NEW rest, Recall(step, rest)
      PROVE  HistoryInv'
  <2> DEFINE at == IF step = "up" THEN IF past.at = 0 THEN 0 ELSE past.at - 1
                   ELSE IF past.at < n THEN past.at + 1 ELSE past.at
  <2>1. at \in 0..n
    BY <1>1 DEF HistoryInv
  <2>2. past' = [past EXCEPT !.at = at]
    BY <1>3 DEF Recall
  <2> HIDE DEF at
  <2>3. {"lines", "at"} \subseteq DOMAIN past' /\ past'.lines = past.lines /\ past'.at = at
    BY <2>2 DEF HistoryInv
  <2> QED BY <2>1, <2>3 DEF HistoryInv
<1>4. ASSUME NEW value, Remembers(value)
      PROVE  HistoryInv'
  <2> DEFINE more == Append(past.lines, value)
  <2>1. Listed(more) /\ Len(more) = n + 1
    BY Appending DEF HistoryInv
  <2>2. past' = [lines |-> more, at |-> Len(more)]
    BY <1>4 DEF Remembers
  <2> HIDE DEF more
  <2> QED BY <1>1, <2>1, <2>2 DEF HistoryInv
<1>5. CASE AreaTakes
  BY <1>2, <1>3, <1>5 DEF AreaTakes, AreaKey, ToInput
<1>6. CASE InputTakes
  BY <1>2, <1>4, <1>6 DEF InputTakes, InputKey
<1>7. UNCHANGED past \/ AreaTakes \/ InputTakes
  BY DEF ComposerNext, AnswerNext, composerVars, Press, TimerFires, BuildEnds, IndexAges, SetCwd,
         PanelOpens, PanelKey, MenuCloses, MenuOpens, MenuKey, unmoved
<1> QED BY <1>2, <1>5, <1>6, <1>7

LEMMA MenuKept == MenuInv /\ [ComposerNext \/ AnswerNext]_composerVars => MenuInv'
<1> SUFFICES ASSUME MenuInv, [ComposerNext \/ AnswerNext]_composerVars PROVE MenuInv'
  OBVIOUS
<1> DEFINE Shown == [open : {TRUE}, outside : BOOLEAN, at : 1..3, reason : BOOLEAN,
                     decided : Decisions]
<1>1. CASE UNCHANGED menu
  BY <1>1 DEF MenuInv
<1>2. ASSUME NEW outside \in BOOLEAN, MenuOpens(outside)
      PROVE  MenuInv'
  <2>1. menu' = [open |-> TRUE, outside |-> outside, at |-> 1, reason |-> FALSE,
                 decided |-> "nothing"]
    BY <1>2 DEF MenuOpens
  <2>2. 1 \in DOMAIN Options(outside)
    BY DEF Options
  <2>3. menu' \in Shown
    BY <2>1 DEF Decisions
  <2> QED BY <2>1, <2>2, <2>3 DEF MenuInv
<1>3. CASE MenuCloses
  BY <1>3 DEF MenuCloses, MenuInv, NoMenu
<1>4. ASSUME NEW key, MenuKey(key)
      PROVE  MenuInv'
  <2> DEFINE options == Options(menu.outside)
  <2>1. menu \in Shown /\ menu.at \in DOMAIN options
    <3>1. menu.open /\ menu # NoMenu
      BY <1>4 DEF MenuKey, NoMenu
    <3> QED BY <3>1 DEF MenuInv
  <2>2. /\ DOMAIN options \subseteq 1..3 /\ Len(options) \in DOMAIN options
        /\ \A i \in DOMAIN options : options[i] \in Decisions
        /\ menu.outside => \A i \in DOMAIN options : options[i] # "auto"
    BY DEF Options, Decisions
  <2>3. "auto" \in Range(options) => ~menu.outside
    BY <2>1, <2>2 DEF Range
  <2> HIDE DEF options
  <2>4. ASSUME NEW decision \in Decisions, menu.outside => decision # "auto", Decide(decision)
        PROVE  MenuInv'
    <3>1. menu' = [menu EXCEPT !.decided = decision]
      BY <2>4 DEF Decide
    <3>2. menu' \in Shown /\ menu'.at = menu.at /\ menu'.outside = menu.outside
             /\ menu'.decided = decision
      BY <2>1, <3>1
    <3> QED BY <2>1, <2>4, <3>2 DEF MenuInv, options
  <2>5. ASSUME NEW at \in DOMAIN options, menu.decided = "nothing",
               menu' \in Shown, menu'.at = at, menu'.outside = menu.outside,
               menu'.decided = "nothing"
        PROVE  MenuInv'
    BY <2>5 DEF MenuInv, options
  <2>6. CASE menu.reason
    <3>1. CASE menu' = [menu EXCEPT !.reason = FALSE, !.decided = "reject"]
      <4> DEFINE base == [menu EXCEPT !.reason = FALSE]
      <4>1. base \in Shown /\ base.at = menu.at /\ base.outside = menu.outside
        BY <2>1
      <4>2. menu' = [base EXCEPT !.decided = "reject"]
        BY <2>1, <3>1
      <4> HIDE DEF base
      <4>3. menu' \in Shown /\ menu'.at = menu.at /\ menu'.outside = menu.outside
               /\ menu'.decided = "reject"
        BY <4>1, <4>2 DEF Decisions
      <4> QED BY <2>1, <4>3 DEF MenuInv, options
    <3>2. CASE menu' = [menu EXCEPT !.reason = FALSE] /\ menu.decided = "nothing"
      <4>1. menu' \in Shown /\ menu'.at = menu.at /\ menu'.outside = menu.outside
               /\ menu'.decided = "nothing"
        BY <2>1, <3>2
      <4> QED BY <2>1, <2>5, <3>2, <4>1
    <3> QED BY <1>4, <2>6, <3>1, <3>2 DEF MenuKey
  <2>7. CASE ~menu.reason
    <3>1. ASSUME NEW at \in DOMAIN options, menu' = [menu EXCEPT !.at = at],
                 menu.decided = "nothing"
          PROVE  MenuInv'
      <4>1. menu' \in Shown /\ menu'.at = at /\ menu'.outside = menu.outside
               /\ menu'.decided = "nothing"
        BY <2>1, <2>2, <3>1
      <4> QED BY <2>5, <3>1, <4>1
    <3>2. CASE menu' = [menu EXCEPT !.reason = TRUE, !.at = Len(options)] /\ menu.decided = "nothing"
      <4> DEFINE base == [menu EXCEPT !.reason = TRUE]
                 last == Len(options)
      <4>1. base \in Shown /\ base.outside = menu.outside /\ base.decided = "nothing"
        BY <2>1, <3>2
      <4>2. menu' = [base EXCEPT !.at = last]
        BY <2>1, <3>2
      <4>3. last \in DOMAIN options /\ last \in 1..3
        BY <2>2
      <4> HIDE DEF base, last
      <4>4. menu' \in Shown /\ menu'.at = last /\ menu'.outside = menu.outside
               /\ menu'.decided = "nothing"
        BY <4>1, <4>2, <4>3
      <4> QED BY <2>5, <3>2, <4>3, <4>4
    <3>3. ASSUME NEW at \in DOMAIN options, Decide(options[at])
          PROVE  MenuInv'
      BY <2>2, <2>4, <3>3
    <3>4. CASE Decide("approve") \/ Decide("reject") \/ ("auto" \in Range(options) /\ Decide("auto"))
      BY <2>3, <2>4, <3>4 DEF Decisions
    <3>5. menu.decided = "nothing"
      BY <1>4 DEF MenuKey
    <3>6. \/ \E at \in DOMAIN options : menu' = [menu EXCEPT !.at = at]
          \/ \E at \in DOMAIN options : Decide(options[at])
          \/ menu' = [menu EXCEPT !.reason = TRUE, !.at = Len(options)]
          \/ Decide("approve") \/ Decide("reject") \/ ("auto" \in Range(options) /\ Decide("auto"))
      BY <1>4, <2>1, <2>7 DEF MenuKey, options
    <3> QED BY <3>1, <3>2, <3>3, <3>4, <3>5, <3>6
  <2> QED BY <2>6, <2>7
<1>5. \/ UNCHANGED menu \/ MenuCloses \/ \E outside \in BOOLEAN : MenuOpens(outside)
      \/ \E key : MenuKey(key)
  BY DEF ComposerNext, AnswerNext, composerVars, Press, AreaTakes, InputTakes, TimerFires,
         BuildEnds, IndexAges, SetCwd, PanelOpens, PanelKey
<1> QED BY <1>1, <1>2, <1>3, <1>4, <1>5

\* The pieces that are drawn, or will be by the flush that is at work.
LEMMA AnswerKept == AnswerInv /\ [ComposerNext \/ AnswerNext]_composerVars => AnswerInv'
<1> SUFFICES ASSUME AnswerInv, [ComposerNext \/ AnswerNext]_composerVars PROVE AnswerInv'
  OBVIOUS
<1> DEFINE n == Len(answer.pieces)
           Flushes == [appends : BOOLEAN, target : Nat]
           Records == [pieces : Seq({"open", "closed"}), drawn : Nat, timer : BOOLEAN,
                       waiting : Nat, flush : Flushes, erased : BOOLEAN]
<1>1. answer \in Records /\ n \in Nat /\ NoFlush \in Flushes
  BY DEF AnswerInv, NoFlush
<1>2. CASE UNCHANGED answer
  BY <1>2 DEF AnswerInv
<1>3. ASSUME NEW ends \in {"open", "closed"}, AppendContent(ends)
      PROVE  AnswerInv'
  <2> DEFINE more == Append(answer.pieces, ends)
             base == [answer EXCEPT !.pieces = more]
  <2>1. /\ more \in Seq({"open", "closed"}) /\ Len(more) = n + 1
        /\ \A i \in 1..n : more[i] = answer.pieces[i]
    BY <1>1, AppendProperties
  <2>2. answer' = [base EXCEPT !.timer = TRUE]
    BY <1>1, <1>3 DEF AppendContent
  <2> HIDE DEF more
  <2>3. /\ base \in Records /\ base.pieces = more /\ base.drawn = answer.drawn
        /\ base.waiting = answer.waiting /\ base.flush = answer.flush
        /\ base.erased = answer.erased
    BY <1>1, <2>1
  <2> HIDE DEF base
  <2>4. /\ answer' \in Records /\ answer'.pieces = more /\ answer'.drawn = answer.drawn
        /\ answer'.timer = TRUE /\ answer'.flush = answer.flush /\ answer'.erased = answer.erased
    BY <2>2, <2>3
  <2>5. answer.drawn > 0 => answer.drawn \in 1..n
    BY <1>1 DEF AnswerInv
  <2> QED BY <1>1, <2>1, <2>4, <2>5 DEF AnswerInv
<1>4. ASSUME answer' = [answer EXCEPT !.timer = FALSE, !.waiting = @ + 1]
      PROVE  AnswerInv'
  <2> DEFINE base == [answer EXCEPT !.timer = FALSE]
  <2>1. answer' = [base EXCEPT !.waiting = answer.waiting + 1]
    BY <1>1, <1>4
  <2>2. /\ base \in Records /\ base.pieces = answer.pieces /\ base.drawn = answer.drawn
        /\ base.flush = answer.flush /\ base.erased = answer.erased
    BY <1>1
  <2> HIDE DEF base
  <2>3. /\ answer' \in Records /\ answer'.pieces = answer.pieces /\ answer'.drawn = answer.drawn
        /\ answer'.flush = answer.flush /\ answer'.erased = answer.erased
        /\ answer'.waiting = answer.waiting + 1
    BY <1>1, <2>1, <2>2
  <2>4. answer'.waiting > 0
    BY <1>1, <2>3
  <2> QED BY <2>3, <2>4 DEF AnswerInv
<1>5. CASE FlushStarts
  <2> DEFINE next == IF answer.drawn = n THEN NoFlush
                     ELSE [appends |-> AppendSafe(answer.drawn), target |-> n]
             base == [answer EXCEPT !.waiting = answer.waiting - 1]
  <2>1. /\ answer.waiting > 0 /\ answer.flush = NoFlush
        /\ answer' = [base EXCEPT !.flush = next]
    BY <1>1, <1>5 DEF FlushStarts
  <2>2. /\ next \in Flushes /\ next.target <= n
        /\ next.appends => answer.drawn > 0 /\ answer.pieces[answer.drawn] = "open"
        /\ next = NoFlush => answer.drawn = n
        /\ next # NoFlush => next.target = n
    <3>1. CASE answer.drawn = n
      <4>1. next = NoFlush
        BY <3>1
      <4> HIDE DEF next
      <4> QED BY <1>1, <3>1, <4>1 DEF NoFlush
    <3>2. CASE answer.drawn # n
      <4>1. AppendSafe(answer.drawn) \in BOOLEAN /\ n # 0
        BY <1>1, <3>2 DEF AppendSafe, AnswerInv
      <4>2. next = [appends |-> AppendSafe(answer.drawn), target |-> n]
        BY <3>2
      <4>3. next.target = n /\ next.appends = AppendSafe(answer.drawn) /\ next \in Flushes
        BY <1>1, <4>1, <4>2
      <4>4. next # NoFlush
        BY <4>1, <4>3 DEF NoFlush
      <4> HIDE DEF next
      <4> QED BY <1>1, <4>3, <4>4 DEF AppendSafe
    <3> QED BY <3>1, <3>2
  <2> HIDE DEF next
  <2>3. /\ base \in Records /\ base.pieces = answer.pieces /\ base.drawn = answer.drawn
        /\ base.erased = answer.erased
    BY <1>1, <2>1
  <2> HIDE DEF base
  <2>4. /\ answer' \in Records /\ answer'.pieces = answer.pieces /\ answer'.drawn = answer.drawn
        /\ answer'.flush = next /\ answer'.erased = answer.erased
    BY <2>1, <2>2, <2>3
  <2>5. ~((IF next = NoFlush THEN answer.drawn ELSE next.target) < n)
    BY <1>1, <2>2
  <2> QED BY <2>2, <2>4, <2>5 DEF AnswerInv
<1>6. CASE FlushEnds
  <2> DEFINE loses == answer.flush.appends /\ answer.pieces[answer.drawn] = "closed"
             base == [answer EXCEPT !.flush = NoFlush]
             last == [base EXCEPT !.drawn = answer.flush.target]
  <2>1. answer' = [last EXCEPT !.erased = answer.erased \/ loses] /\ answer.flush # NoFlush
    BY <1>1, <1>6 DEF FlushEnds
  <2>2. answer.flush \in Flushes /\ ~loses /\ answer.erased = FALSE
    BY <1>1 DEF AnswerInv
  <2>3. (answer.erased \/ loses) = FALSE
    BY <2>2
  <2>4. answer' = [last EXCEPT !.erased = FALSE]
    BY <2>1, <2>3
  <2>5. /\ base \in Records /\ base.pieces = answer.pieces /\ base.timer = answer.timer
        /\ base.waiting = answer.waiting /\ base.flush = NoFlush
    BY <1>1
  <2> HIDE DEF base
  <2>6. /\ last \in Records /\ last.pieces = answer.pieces /\ last.timer = answer.timer
        /\ last.waiting = answer.waiting /\ last.flush = NoFlush
        /\ last.drawn = answer.flush.target
    BY <2>2, <2>5
  <2> HIDE DEF last
  <2>7. /\ answer' \in Records /\ answer'.pieces = answer.pieces /\ answer'.timer = answer.timer
        /\ answer'.waiting = answer.waiting /\ answer'.flush = NoFlush
        /\ answer'.drawn = answer.flush.target /\ answer'.erased = FALSE
    BY <2>4, <2>6
  <2>8. NoFlush.target = 0 /\ NoFlush.appends = FALSE
    BY DEF NoFlush
  <2> QED BY <1>1, <2>1, <2>7, <2>8 DEF AnswerInv
<1>7. \/ UNCHANGED answer
      \/ \E ends \in {"open", "closed"} : AppendContent(ends)
      \/ answer' = [answer EXCEPT !.timer = FALSE, !.waiting = @ + 1]
      \/ FlushStarts \/ FlushEnds
  BY DEF ComposerNext, AnswerNext, composerVars, FlushDue, StopStream, Press, AreaTakes,
         InputTakes, TimerFires, BuildEnds, IndexAges, SetCwd, PanelOpens, PanelKey, MenuCloses,
         MenuOpens, MenuKey, unmoved
<1> QED BY <1>2, <1>3, <1>4, <1>5, <1>6, <1>7

LEMMA ComposerStart == ComposerInit => ComposerInv
<1> SUFFICES ASSUME ComposerInit PROVE ComposerInv
  OBVIOUS
<1>1. HistoryInv
  <2>1. past = [lines |-> <<>>, at |-> 0] /\ Listed(<<>>) /\ Len(<<>>) = 0
    BY DEF ComposerInit, Listed
  <2> QED BY <2>1 DEF HistoryInv
<1>2. MenuInv
  BY DEF ComposerInit, MenuInv, NoMenu
<1>3. AnswerInv
  <2>1. answer = [pieces |-> <<>>, drawn |-> 0, timer |-> FALSE, waiting |-> 0,
                  flush |-> NoFlush, erased |-> FALSE]
    BY DEF ComposerInit
  <2>2. NoFlush \in [appends : BOOLEAN, target : Nat] /\ NoFlush.target = 0
        /\ NoFlush.appends = FALSE
    BY DEF NoFlush
  <2> HIDE DEF NoFlush
  <2> QED BY <2>1, <2>2 DEF AnswerInv
<1> QED BY <1>1, <1>2, <1>3, ListStart DEF ComposerInv

\* The menu's decision is among the options on screen; the list of a settled text fits.
LEMMA ComposerInvSuffices == ComposerInv => TerminalIsFaithful
<1> SUFFICES ASSUME ComposerInv PROVE TerminalIsFaithful
  OBVIOUS
<1>1. CompletionsFit
  <2>1. Settled => ~Unheard(areaQueue) /\ ~Unheard(inputQueue)
    BY DEF Settled, Unheard
  <2> QED BY <2>1 DEF ComposerInv, ListInv, CompletionsFit, Settled, OfferFollows, OfferFits, Reading
<1>2. DecisionIsOffered
  <2> SUFFICES ASSUME menu.open, menu.decided # "nothing"
               PROVE  menu.decided \in Range(Options(menu.outside))
    BY DEF DecisionIsOffered
  <2>1. menu # NoMenu
    BY DEF NoMenu
  <2>2. menu.outside \in BOOLEAN /\ menu.decided \in {"approve", "auto", "reject"}
        /\ (menu.outside => menu.decided # "auto")
    BY <2>1 DEF ComposerInv, MenuInv, Decisions
  <2>3. CASE menu.outside
    <3>1. /\ Options(menu.outside) = <<"approve", "reject">>
          /\ menu.decided \in {"approve", "reject"}
      BY <2>2, <2>3 DEF Options
    <3> QED BY <3>1 DEF Range
  <2>4. CASE ~menu.outside
    <3>1. Options(menu.outside) = <<"approve", "auto", "reject">>
      BY <2>4 DEF Options
    <3> QED BY <2>2, <3>1 DEF Range
  <2> QED BY <2>3, <2>4
<1>3. AnswerIsDrawn
  BY DEF ComposerInv, AnswerInv, AnswerIsDrawn
<1>4. HistoryIsInRange
  BY DEF ComposerInv, HistoryInv, HistoryIsInRange
<1> QED BY <1>1, <1>2, <1>3, <1>4 DEF TerminalIsFaithful

\* In the terminal, whatever is typed, read and switched in whatever order: a key
\* never accepts a completion that does not match, a decision is one the menu
\* offers, an answer is drawn in full and nothing of it is overwritten, and the
\* history is not left (copper_widgets.py).
THEOREM ScreenTellsTheTruth == ComposerSpec => []TerminalIsFaithful
<1>1. ComposerInv /\ [ComposerNext \/ AnswerNext]_composerVars => ComposerInv'
  BY ListKept, HistoryKept, MenuKept, AnswerKept DEF ComposerInv
<1> QED BY <1>1, ComposerStart, ComposerInvSuffices, PTL DEF ComposerSpec

=============================================================================

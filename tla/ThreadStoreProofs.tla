------------------------- MODULE ThreadStoreProofs -------------------------
(***************************************************************************)
(* Theorems about what is kept of a thread: the chat the hosted model is   *)
(* told of (ChatContext), for any number of turns and messages, the        *)
(* database (SessionStore), for any processes, threads and limits, and     *)
(* what is read back of it: the replay log (ReplayLog) for any events, the *)
(* message count (MessageFold) for any writes.                             *)
(***************************************************************************)
EXTENDS MCThreadStore, FiniteSetTheorems, SequenceTheorems,
        WellFoundedInduction, TLAPS

USE ContextAssumption

----------------------------------------------------------------------------
(* The values of the chat's state *)

Entries == [kind : {"human", "say", "asked"}, turn : TurnNumbers \cup {0}]
Summaries == [cut : Nat, covers : SUBSET Nat]
Journals ==
  [turn : TurnNumbers, original : Nat, pinned : {"never", "first", "resumed"},
   cut : Nat, covers : SUBSET Nat, answers : SUBSET Int, known : Int,
   said : BOOLEAN, answered : BOOLEAN, size : Int,
   carried : SUBSET TurnNumbers, carriedSize : Int]
Requests ==
  [turn : TurnNumbers, original : Nat, pinned : {"never", "first", "resumed"},
   cut : Nat, covers : SUBSET Nat, answers : SUBSET Int, known : Int]
Runs ==
  [turn : TurnNumbers, at : {"deciding", "running", "streaming"}, original : Nat,
   new : Summaries, size : Int, shrunk : BOOLEAN, additions : Seq(Entries)]

ChatTyped ==
  /\ messages \in Seq(Entries) /\ summary \in Summaries
  /\ size \in Int /\ facts \in SUBSET TurnNumbers
TurnTyped ==
  /\ sidecar \in Journals \cup {None} /\ mem \in Journals \cup {None}
  /\ live \in Runs \cup {None} /\ request \in Requests \cup {None}
HistoryTyped == answered \in SUBSET TurnNumbers /\ passedBy \in SUBSET answered

Typed == ChatTyped /\ TurnTyped /\ HistoryTyped

\* A turn has a number, and None has not.
LEMMA NoneIsNothing ==
  /\ \A j \in Journals : j # None
  /\ \A r \in Requests : r # None
  /\ \A l \in Runs : l # None
<1>1. None.turn = 0
  BY DEF None
<1>2. QED
  BY <1>1 DEF Journals, Requests, Runs, TurnNumbers

LEMMA NoSummaryTyped == NoSummary \in Summaries /\ NoSummary.cut = 0 /\ NoSummary.covers = {}
BY DEF NoSummary, Summaries

LEMMA MessageTyped ==
  \A kind \in {"human", "say", "asked"}, t \in TurnNumbers \cup {0} :
     /\ Message(kind, t) \in Entries
     /\ Message(kind, t).kind = kind /\ Message(kind, t).turn = t
BY DEF Message, Entries

\* What a request repeats of its journal.
LEMMA SentFields ==
  \A j \in Journals :
     /\ Sent(j) \in Requests
     /\ Sent(j).turn = j.turn /\ Sent(j).original = j.original
     /\ Sent(j).pinned = j.pinned /\ Sent(j).cut = j.cut
     /\ Sent(j).covers = j.covers /\ Sent(j).answers = j.answers
BY DEF Sent, Journals, Requests

LEMMA SentSame ==
  ASSUME NEW j \in Journals, NEW k \in Journals, Sent(j) = Sent(k)
  PROVE  /\ j.turn = k.turn /\ j.original = k.original /\ j.pinned = k.pinned
         /\ j.cut = k.cut /\ j.covers = k.covers /\ j.answers = k.answers
BY SentFields

\* The fields of a journal that a stream changes are none a request repeats.
Kept(k, j) == k \in Journals /\ Sent(k) = Sent(j) /\ k.carried = j.carried

LEMMA Marks ==
  ASSUME NEW j \in Journals, NEW k
  PROVE  /\ k = [j EXCEPT !.said = TRUE] => Kept(k, j) /\ k.answered = j.answered
         /\ k = [j EXCEPT !.answered = TRUE] => Kept(k, j) /\ k.answered = TRUE
         /\ \A n \in Int : k = [j EXCEPT !.size = n] => Kept(k, j) /\ k.answered = j.answered
BY DEF Journals, Kept, Sent

----------------------------------------------------------------------------
(* The transcript *)

TurnsIn(msgs) == {msgs[p].turn : p \in DOMAIN msgs} \ {0}

LEMMA Appended ==
  ASSUME NEW s \in Seq(Entries), NEW t \in Seq(Entries)
  PROVE  /\ s \o t \in Seq(Entries) /\ Len(s) <= Len(s \o t) /\ Len(s \o t) = Len(s) + Len(t)
         /\ AnswersIn(s \o t) = AnswersIn(s) \cup AnswersIn(t)
         /\ TurnsIn(s \o t) = TurnsIn(s) \cup TurnsIn(t)
<1> DEFINE u == s \o t
<1>1. u \in Seq(Entries) /\ Len(u) = Len(s) + Len(t)
  OBVIOUS
<1>2. /\ \A p \in DOMAIN s : p \in DOMAIN u /\ u[p] = s[p]
      /\ \A p \in DOMAIN t : p + Len(s) \in DOMAIN u /\ u[p + Len(s)] = t[p]
  OBVIOUS
<1>3. \A p \in DOMAIN u : \/ p \in DOMAIN s /\ u[p] = s[p]
                          \/ p - Len(s) \in DOMAIN t /\ u[p] = t[p - Len(s)]
  OBVIOUS
<1> HIDE DEF u
<1>4. AnswersIn(u) = AnswersIn(s) \cup AnswersIn(t)
  <2>1. AnswersIn(s) \subseteq AnswersIn(u) /\ AnswersIn(t) \subseteq AnswersIn(u)
    BY <1>2 DEF AnswersIn
  <2>2. AnswersIn(u) \subseteq AnswersIn(s) \cup AnswersIn(t)
    BY <1>3 DEF AnswersIn
  <2>3. QED
    BY <2>1, <2>2
<1>5. TurnsIn(u) = TurnsIn(s) \cup TurnsIn(t)
  <2>1. TurnsIn(s) \subseteq TurnsIn(u) /\ TurnsIn(t) \subseteq TurnsIn(u)
    BY <1>2 DEF TurnsIn
  <2>2. TurnsIn(u) \subseteq TurnsIn(s) \cup TurnsIn(t)
    BY <1>3 DEF TurnsIn
  <2>3. QED
    BY <2>1, <2>2
<1>6. QED
  BY <1>1, <1>4, <1>5 DEF u

LEMMA Associates ==
  \A s \in Seq(Entries) : \A t \in Seq(Entries) : \A u \in Seq(Entries) :
     (s \o t) \o u = s \o (t \o u)
BY ConcatAssociative

LEMMA OneMessage ==
  ASSUME NEW kind \in {"human", "say", "asked"}, NEW t \in TurnNumbers \cup {0}
  PROVE  /\ <<Message(kind, t)>> \in Seq(Entries) /\ Len(<<Message(kind, t)>>) = 1
         /\ DOMAIN <<Message(kind, t)>> = {1} /\ <<Message(kind, t)>>[1] = Message(kind, t)
         /\ TurnsIn(<<Message(kind, t)>>) = {t} \ {0}
         /\ AnswersIn(<<Message(kind, t)>>) = IF kind = "asked" THEN {t} ELSE {}
<1> DEFINE s == <<Message(kind, t)>>
<1>1. s \in Seq(Entries) /\ Len(s) = 1 /\ DOMAIN s = {1} /\ s[1] = Message(kind, t)
  BY MessageTyped
<1> HIDE DEF s
<1>2. TurnsIn(s) = {t} \ {0}
  BY <1>1, MessageTyped DEF TurnsIn
<1>3. AnswersIn(s) = IF kind = "asked" THEN {t} ELSE {}
  BY <1>1, MessageTyped DEF AnswersIn
<1>4. QED
  BY <1>1, <1>2, <1>3 DEF s

LEMMA NoMessage ==
  /\ <<>> \in Seq(Entries) /\ Len(<<>>) = 0 /\ DOMAIN <<>> = {}
  /\ TurnsIn(<<>>) = {} /\ AnswersIn(<<>>) = {}
BY DEF TurnsIn, AnswersIn

\* The turns are numbered in the order they are sent.
LEMMA LatestCounts == \A n \in Nat : TurnsIn(messages) = 1..n => Latest = n
<1> SUFFICES ASSUME NEW n \in Nat, TurnsIn(messages) = 1..n
             PROVE  Latest = n
  OBVIOUS
<1>1. CASE messages = <<>>
  <2>1. 1..n = {}
    BY <1>1, NoMessage
  <2>2. n = 0
    <3>1. n >= 1 => 1 \in 1..n
      OBVIOUS
    <3>2. QED
      BY <2>1, <3>1
  <2>3. QED
    BY <1>1, <2>2 DEF Latest
<1>2. CASE messages # <<>>
  <2>1. Latest = Cardinality(1..n)
    BY <1>2 DEF Latest, TurnsIn
  <2>2. Cardinality(1..n) = n
    BY FS_Interval
  <2>3. QED
    BY <2>1, <2>2
<1>3. QED
  BY <1>1, <1>2

----------------------------------------------------------------------------
(* The inductive invariant *)

Deciding == live # None /\ live.at = "deciding"
Active == live # None /\ live.at # "deciding"

\* A node that runs has a journal, whose copy on disk may only lag in the text
\* and the size; a node that decides is of a newer turn than the one on disk.
Control ==
  /\ ~Active => mem = None
  /\ Active => /\ mem \in Journals /\ sidecar \in Journals /\ mem.pinned # "never"
               /\ Sent(sidecar) = Sent(mem) /\ mem.carried = sidecar.carried
               /\ mem.answered = sidecar.answered
               /\ live.turn = mem.turn /\ live.original = mem.original
  /\ Deciding /\ sidecar # None => sidecar.turn < live.turn

\* The turns of the transcript are the first ones, and a turn on disk or in a
\* node is one of them, its query before the end of the transcript.
Places ==
  /\ Latest \in Nat /\ TurnsIn(messages) = 1..Latest
  /\ sidecar # None => sidecar.turn <= Latest /\ sidecar.original \in 1..Len(messages)
  /\ live # None => /\ live.turn <= Latest /\ live.original \in 1..Len(messages)
                    /\ TurnsIn(live.additions) \subseteq {live.turn}

\* The last request is the state its turn has pinned, and no older turn is left.
Pins ==
  /\ request # None =>
       /\ request.turn <= Latest /\ request.pinned # "never"
       /\ Deciding => request.turn < live.turn
       /\ sidecar # None => request.turn <= sidecar.turn
       /\ sidecar # None /\ sidecar.turn = request.turn => Sent(sidecar) = request
  /\ Active /\ live.at = "streaming" => request = Sent(mem)

\* A text stands for the messages up to its cut, and no others there may be.
Whole(s) == \A p \in 1..s.cut : p \in s.covers
Within(s) == s.cut <= Len(messages) /\ s.covers \subseteq 1..Len(messages)

Cuts ==
  /\ Whole(summary) /\ Within(summary)
  /\ sidecar # None => Whole(sidecar) /\ Within(sidecar) /\ summary.cut < sidecar.original
  /\ sidecar # None /\ sidecar.pinned = "never" => sidecar.cut = 0
  /\ live # None => /\ Whole(live.new) /\ Within(live.new)
                    /\ summary.cut < live.original /\ live.new.cut < live.original
  /\ request # None => Whole(request)

\* An answer that counts is in the transcript, in the facts or on disk, and what
\* a turn has pinned holds all of those given before it.
Due == answered \ passedBy
Own(j) == IF j.answered THEN {j.turn} ELSE {}
Told(j) == j.pinned = "first" => \A t \in Due : t < j.turn => t \in j.answers

Answers ==
  /\ \A t \in Due : \/ t \in AnswersIn(messages) \cup facts
                    \/ sidecar # None /\ t \in sidecar.carried \cup Own(sidecar)
  /\ sidecar # None => Own(sidecar) \subseteq answered /\ Told(sidecar)
  /\ request # None => Told(request)
  /\ Active /\ mem.answered =>
       \/ live.turn \in AnswersIn(live.additions)
       \/ live.turn \in AnswersIn(messages) \cup passedBy

ChatInv == Typed /\ Control /\ Places /\ Pins /\ Cuts /\ Answers

LEMMA ChatInit == ContextInit => ChatInv
<1> SUFFICES ASSUME ContextInit
             PROVE  ChatInv
  OBVIOUS
<1>1. Typed
  BY NoMessage, NoSummaryTyped DEF ContextInit, Typed, ChatTyped, TurnTyped, HistoryTyped, NoSize
<1>2. ~Active /\ ~Deciding
  BY DEF ContextInit, Active, Deciding
<1>3. Control /\ Pins
  BY <1>2 DEF ContextInit, Control, Pins
<1>4. Latest = 0 /\ 1..0 = {}
  BY DEF ContextInit, Latest
<1>5. Places
  BY <1>4, NoMessage DEF ContextInit, Places
<1>6. Cuts
  BY NoSummaryTyped, NoMessage DEF ContextInit, Cuts, Whole, Within
<1>7. Answers
  BY <1>2 DEF ContextInit, Answers, Due
<1>8. QED
  BY <1>1, <1>3, <1>5, <1>6, <1>7 DEF ChatInv

\* The types of the values a step reads.
LEMMA Values ==
  ASSUME ChatInv
  PROVE  /\ messages \in Seq(Entries) /\ Len(messages) \in Nat /\ Latest \in Nat
         /\ summary \in Summaries /\ summary.cut \in Nat /\ summary.covers \subseteq Nat
         /\ size \in Int /\ facts \subseteq TurnNumbers
         /\ sidecar # None => sidecar \in Journals
         /\ mem # None => mem \in Journals
         /\ live # None => live \in Runs
         /\ request # None => request \in Requests
BY DEF ChatInv, Typed, ChatTyped, TurnTyped, HistoryTyped, Summaries, Places

LEMMA KillStep == ChatInv /\ Kill => ChatInv'
<1> SUFFICES ASSUME ChatInv, Kill
             PROVE  ChatInv'
  OBVIOUS
<1> USE DEF ChatInv, Kill, checkpoint, history
<1>1. Typed'
  BY DEF Typed, ChatTyped, TurnTyped, HistoryTyped
<1>2. ~Active' /\ ~Deciding'
  BY DEF Active, Deciding
<1>3. Control'
  BY <1>2 DEF Control
<1>4. Latest' = Latest
  BY DEF Latest
<1>5. Places'
  BY <1>4 DEF Places
<1>6. Pins'
  BY <1>2, <1>4 DEF Pins
<1>7. Cuts'
  BY DEF Cuts, Within
<1>8. Answers'
  BY <1>2 DEF Answers, Due, Told
<1>9. QED
  BY <1>1, <1>3, <1>5, <1>6, <1>7, <1>8

LEMMA CancelStep == ChatInv /\ Cancel => ChatInv'
<1> SUFFICES ASSUME ChatInv, Cancel
             PROVE  ChatInv'
  OBVIOUS
<1> USE DEF ChatInv, Cancel, checkpoint, history
<1>0. Active /\ live.at = "streaming"
  BY DEF Streaming, Active
<1>1. /\ mem \in Journals /\ sidecar \in Journals /\ Sent(sidecar) = Sent(mem)
      /\ mem.carried = sidecar.carried /\ mem.answered = sidecar.answered
  BY <1>0 DEF Control
<1>2. /\ sidecar.turn = mem.turn /\ sidecar.original = mem.original
      /\ sidecar.pinned = mem.pinned /\ sidecar.cut = mem.cut
      /\ sidecar.covers = mem.covers /\ sidecar.answers = mem.answers
  BY <1>1, SentSame
<1>3. sidecar # None /\ sidecar' # None
  BY <1>1, NoneIsNothing
<1>4. Typed'
  BY <1>1 DEF Typed, ChatTyped, TurnTyped, HistoryTyped
<1>5. ~Active' /\ ~Deciding'
  BY DEF Active, Deciding
<1>6. Control'
  BY <1>5 DEF Control
<1>7. Latest' = Latest
  BY DEF Latest
<1>8. Places'
  BY <1>2, <1>3, <1>7 DEF Places
<1>9. Pins'
  BY <1>1, <1>2, <1>3, <1>5, <1>7 DEF Pins
<1>10. Cuts'
  BY <1>2, <1>3 DEF Cuts, Whole, Within
<1>11. Own(mem) = Own(sidecar)
  BY <1>1, <1>2 DEF Own
<1>12. Answers'
  BY <1>1, <1>2, <1>3, <1>5, <1>11 DEF Answers, Due, Told
<1>13. QED
  BY <1>4, <1>6, <1>8, <1>9, <1>10, <1>12

LEMMA AttemptStep == ChatInv /\ Attempt => ChatInv'
<1> SUFFICES ASSUME ChatInv, Attempt
             PROVE  ChatInv'
  OBVIOUS
<1> USE DEF ChatInv, Attempt, checkpoint, history, Payload
<1>0. Active /\ live \in Runs
  BY Values DEF Active
<1>1. /\ mem \in Journals /\ sidecar \in Journals /\ Sent(sidecar) = Sent(mem)
      /\ live.turn = mem.turn /\ live.original = mem.original /\ mem.pinned # "never"
  BY <1>0 DEF Control
<1>2. /\ sidecar.turn = mem.turn /\ sidecar.original = mem.original
      /\ sidecar.pinned = mem.pinned /\ sidecar.cut = mem.cut
      /\ sidecar.covers = mem.covers /\ sidecar.answers = mem.answers
  BY <1>1, SentSame
<1>3. sidecar # None /\ sidecar' # None
  BY <1>1, NoneIsNothing
<1>4. /\ live' \in Runs /\ live'.at = "streaming" /\ live'.turn = live.turn
      /\ live'.original = live.original /\ live'.new = live.new
      /\ live'.additions = live.additions
  BY <1>0 DEF Runs
<1>5. /\ request' \in Requests /\ request' = Sent(mem) /\ request'.turn = mem.turn
      /\ request'.pinned = mem.pinned /\ request'.cut = mem.cut
      /\ request'.covers = mem.covers /\ request'.answers = mem.answers
  BY <1>1, SentFields
<1>6. Typed'
  BY <1>4, <1>5 DEF Typed, ChatTyped, TurnTyped, HistoryTyped
<1>7. Active' /\ ~Deciding'
  BY <1>4, NoneIsNothing DEF Active, Deciding
<1>8. Control'
  BY <1>0, <1>4, <1>7 DEF Control
<1>9. Latest' = Latest
  BY DEF Latest
<1>10. Places'
  BY <1>4, <1>9 DEF Places
<1>11. Pins'
  <2>1. sidecar.turn \in Int /\ sidecar.turn <= Latest
    BY <1>1, <1>3 DEF Places, Journals, TurnNumbers
  <2>2. request'.turn = sidecar.turn /\ request' = Sent(sidecar)
    BY <1>1, <1>2, <1>5
  <2>3. request'.turn <= Latest' /\ request'.turn <= sidecar'.turn
    BY <1>9, <2>1, <2>2
  <2>4. QED
    BY <1>1, <1>5, <1>7, <2>2, <2>3 DEF Pins
<1>12. Cuts'
  BY <1>2, <1>3, <1>4, <1>5 DEF Cuts, Whole, Within
<1>13. Told(request)' /\ Told(sidecar)'
  BY <1>2, <1>3, <1>5 DEF Answers, Told, Due
<1>14. Answers'
  BY <1>0, <1>3, <1>4, <1>7, <1>13 DEF Answers, Due, Own
<1>15. QED
  BY <1>6, <1>8, <1>10, <1>11, <1>12, <1>14

\* The node, its journal and the copy on disk while it runs.
LEMMA ActiveFacts ==
  ASSUME ChatInv, Active
  PROVE  /\ live \in Runs /\ mem \in Journals /\ sidecar \in Journals /\ sidecar # None
         /\ mem # None /\ Sent(sidecar) = Sent(mem) /\ mem.carried = sidecar.carried
         /\ mem.answered = sidecar.answered /\ mem.pinned # "never"
         /\ live.turn = mem.turn /\ live.original = mem.original
         /\ sidecar.turn = mem.turn /\ sidecar.original = mem.original
         /\ sidecar.pinned = mem.pinned /\ sidecar.cut = mem.cut
         /\ sidecar.covers = mem.covers /\ sidecar.answers = mem.answers
         /\ Own(mem) = Own(sidecar)
<1>1. /\ mem \in Journals /\ sidecar \in Journals /\ Sent(sidecar) = Sent(mem)
      /\ mem.carried = sidecar.carried /\ mem.answered = sidecar.answered
      /\ live.turn = mem.turn /\ live.original = mem.original /\ mem.pinned # "never"
  BY DEF ChatInv, Control
<1>2. /\ sidecar.turn = mem.turn /\ sidecar.original = mem.original
      /\ sidecar.pinned = mem.pinned /\ sidecar.cut = mem.cut
      /\ sidecar.covers = mem.covers /\ sidecar.answers = mem.answers
  BY <1>1, SentSame
<1>3. live \in Runs /\ sidecar # None /\ mem # None
  BY <1>1, Values, NoneIsNothing DEF Active
<1>4. Own(mem) = Own(sidecar)
  BY <1>1, <1>2 DEF Own
<1>5. QED
  BY <1>1, <1>2, <1>3, <1>4

\* A step of the stream keeps what the turn has pinned.
LEMMA StreamKeeps ==
  ASSUME ChatInv, Active, live.at = "streaming",
         Kept(mem', mem), sidecar' \in {sidecar, mem'}, mem'.answered = sidecar'.answered,
         live' \in Runs, live'.at = live.at, live'.turn = live.turn,
         live'.original = live.original, live'.new = live.new,
         TurnsIn(live'.additions) \subseteq {live.turn},
         UNCHANGED <<messages, summary, size, facts, request>>
  PROVE  /\ Active' /\ ChatTyped' /\ TurnTyped' /\ Control' /\ Places' /\ Pins' /\ Cuts'
         /\ sidecar' \in Journals /\ sidecar' # None /\ sidecar'.turn = sidecar.turn
         /\ sidecar'.carried = sidecar.carried /\ sidecar'.pinned = sidecar.pinned
         /\ sidecar'.answers = sidecar.answers
<1> USE DEF ChatInv
<1>1. mem' \in Journals /\ Sent(mem') = Sent(mem) /\ mem'.carried = mem.carried
  BY DEF Kept
<1>2. /\ mem'.turn = mem.turn /\ mem'.original = mem.original /\ mem'.pinned = mem.pinned
      /\ mem'.cut = mem.cut /\ mem'.covers = mem.covers /\ mem'.answers = mem.answers
  BY <1>1, ActiveFacts, SentSame
<1>3. /\ sidecar' \in Journals /\ sidecar'.carried = sidecar.carried
      /\ Sent(sidecar') = Sent(sidecar)
  BY <1>1, ActiveFacts
<1>4. /\ sidecar'.turn = sidecar.turn /\ sidecar'.original = sidecar.original
      /\ sidecar'.pinned = sidecar.pinned /\ sidecar'.cut = sidecar.cut
      /\ sidecar'.covers = sidecar.covers /\ sidecar'.answers = sidecar.answers
  BY <1>3, ActiveFacts, SentSame
<1>5. sidecar' # None /\ sidecar # None /\ live' # None /\ mem' # None
  BY <1>1, <1>3, ActiveFacts, NoneIsNothing
<1>6. Active' /\ ~Deciding' /\ ~Deciding
  BY <1>5 DEF Active, Deciding
<1>7. ChatTyped' /\ TurnTyped'
  BY <1>1, <1>3 DEF Typed, ChatTyped, TurnTyped
<1>8. Control'
  BY <1>1, <1>2, <1>3, <1>6, ActiveFacts DEF Control
<1>9. Latest' = Latest
  BY DEF Latest
<1>10. Places'
  BY <1>4, <1>5, <1>9 DEF Places, Active
<1>11. Pins'
  BY <1>1, <1>3, <1>4, <1>5, <1>6, <1>9 DEF Pins
<1>12. Cuts'
  BY <1>4, <1>5 DEF Cuts, Whole, Within, Active
<1>13. QED
  BY <1>3, <1>4, <1>5, <1>6, <1>7, <1>8, <1>10, <1>11, <1>12

\* One that answers no question keeps what is told, too.
LEMMA StreamTells ==
  ASSUME ChatInv, Active, live.at = "streaming",
         Kept(mem', mem), sidecar' \in {sidecar, mem'}, mem'.answered = mem.answered,
         live' \in Runs, live'.at = live.at, live'.turn = live.turn,
         live'.original = live.original, live'.new = live.new,
         TurnsIn(live'.additions) \subseteq {live.turn},
         AnswersIn(live.additions) \subseteq AnswersIn(live'.additions),
         UNCHANGED <<messages, summary, size, facts, request, answered, passedBy>>
  PROVE  ChatInv'
<1>1. mem'.answered = sidecar'.answered /\ sidecar'.answered = sidecar.answered
  BY ActiveFacts
<1>2. /\ Active' /\ ChatTyped' /\ TurnTyped' /\ Control' /\ Places' /\ Pins' /\ Cuts'
      /\ sidecar' \in Journals /\ sidecar' # None /\ sidecar'.turn = sidecar.turn
      /\ sidecar'.carried = sidecar.carried /\ sidecar'.pinned = sidecar.pinned
      /\ sidecar'.answers = sidecar.answers
  BY <1>1, StreamKeeps
<1>3. HistoryTyped'
  BY DEF ChatInv, Typed, HistoryTyped
<1>4. sidecar # None /\ Due' = Due /\ Own(sidecar)' = Own(sidecar)
  BY <1>1, <1>2, ActiveFacts DEF Due, Own
<1>5. Told(sidecar)' = Told(sidecar)
  BY <1>2, <1>4 DEF Told
<1>6. Told(request)' = Told(request)
  BY <1>4 DEF Told
<1>7. Answers'
  BY <1>1, <1>2, <1>4, <1>5, <1>6, ActiveFacts DEF ChatInv, Answers
<1>8. QED
  BY <1>2, <1>3, <1>7 DEF ChatInv, Typed

\* What the node adds to its turn.
LEMMA Added ==
  ASSUME NEW l \in Runs, NEW kind \in {"say", "asked"}, TurnsIn(l.additions) \subseteq {l.turn},
         NEW m, m = [l EXCEPT !.additions = Append(@, Message(kind, l.turn))]
  PROVE  /\ m \in Runs /\ m.at = l.at /\ m.turn = l.turn
         /\ m.original = l.original /\ m.new = l.new
         /\ TurnsIn(m.additions) \subseteq {l.turn}
         /\ AnswersIn(m.additions) = AnswersIn(l.additions) \cup IF kind = "asked" THEN {l.turn} ELSE {}
<1> DEFINE one == <<Message(kind, l.turn)>>
<1>1. l.turn \in TurnNumbers \cup {0} /\ l.additions \in Seq(Entries)
  BY DEF Runs
<1>2. Message(kind, l.turn) \in Entries
  BY <1>1, MessageTyped
<1>3. /\ one \in Seq(Entries) /\ TurnsIn(one) = {l.turn} \ {0}
      /\ AnswersIn(one) = IF kind = "asked" THEN {l.turn} ELSE {}
  BY <1>1, OneMessage
<1>4. Append(l.additions, Message(kind, l.turn)) = l.additions \o one
  BY <1>1, <1>2, AppendIsConcat
<1> HIDE DEF one
<1>5. m = [l EXCEPT !.additions = l.additions \o one]
  BY <1>4
<1>6. l.additions \o one \in Seq(Entries)
  BY <1>1, <1>3, Appended
<1>7. /\ m \in Runs /\ m.at = l.at /\ m.turn = l.turn /\ m.original = l.original
      /\ m.new = l.new /\ m.additions = l.additions \o one
  BY <1>5, <1>6 DEF Runs
<1>8. /\ TurnsIn(l.additions \o one) = TurnsIn(l.additions) \cup TurnsIn(one)
      /\ AnswersIn(l.additions \o one) = AnswersIn(l.additions) \cup AnswersIn(one)
  BY <1>1, <1>3, Appended
<1>9. TurnsIn(m.additions) \subseteq {l.turn}
  BY <1>3, <1>7, <1>8
<1>10. AnswersIn(m.additions) = AnswersIn(l.additions) \cup IF kind = "asked" THEN {l.turn} ELSE {}
  BY <1>3, <1>7, <1>8
<1>11. QED
  BY <1>7, <1>9, <1>10

LEMMA TextStep == ChatInv /\ Text => ChatInv'
<1> SUFFICES ASSUME ChatInv, Text
             PROVE  ChatInv'
  OBVIOUS
<1> USE DEF Text, checkpoint, history
<1>1. Active /\ live.at = "streaming"
  BY DEF Active, Streaming
<1>2. live \in Runs /\ TurnsIn(live.additions) \subseteq {live.turn}
  BY <1>1, ActiveFacts DEF ChatInv, Places, Active
<1>3. live' = [live EXCEPT !.additions = Append(@, Message("say", live.turn))]
  BY DEF Adds
<1>4. /\ live' \in Runs /\ live'.at = live.at /\ live'.turn = live.turn
      /\ live'.original = live.original /\ live'.new = live.new
      /\ TurnsIn(live'.additions) \subseteq {live.turn}
      /\ AnswersIn(live'.additions) = AnswersIn(live.additions)
  <2>1. "say" \in {"say", "asked"}
    OBVIOUS
  <2>2. AnswersIn(live'.additions) =
          AnswersIn(live.additions) \cup IF "say" = "asked" THEN {live.turn} ELSE {}
    BY <1>2, <1>3, <2>1, Added
  <2>3. QED
    BY <1>2, <1>3, <2>1, <2>2, Added
<1>5. Kept(mem', mem) /\ mem'.answered = mem.answered
  BY <1>1, ActiveFacts, Marks
<1>6. QED
  BY <1>1, <1>4, <1>5, StreamTells

LEMMA InTurnCompactionStep == ChatInv /\ InTurnCompaction => ChatInv'
<1> SUFFICES ASSUME ChatInv, InTurnCompaction
             PROVE  ChatInv'
  OBVIOUS
<1> USE DEF InTurnCompaction, checkpoint, history
<1>1. Active /\ live.at = "streaming"
  BY DEF Active, Streaming
<1>2. live \in Runs /\ TurnsIn(live.additions) \subseteq {live.turn} /\ mem \in Journals
  BY <1>1, ActiveFacts DEF ChatInv, Places, Active
<1>3. /\ live' \in Runs /\ live'.at = live.at /\ live'.turn = live.turn
      /\ live'.original = live.original /\ live'.new = live.new
      /\ live'.additions = live.additions
  BY <1>2 DEF Runs
<1>4. Kept(mem', mem) /\ mem'.answered = mem.answered
  BY <1>2 DEF Kept
<1>5. QED
  BY <1>1, <1>2, <1>3, <1>4, StreamTells

LEMMA MeasuredStep == ChatInv /\ Measured => ChatInv'
<1> SUFFICES ASSUME ChatInv, Measured
             PROVE  ChatInv'
  OBVIOUS
<1> USE DEF Measured, checkpoint, history
<1>1. Active /\ live.at = "streaming"
  BY DEF Active, Streaming
<1>2. live \in Runs /\ TurnsIn(live.additions) \subseteq {live.turn} /\ mem \in Journals
  BY <1>1, ActiveFacts DEF ChatInv, Places, Active
<1> DEFINE under == IF live.shrunk THEN live.original - 1 ELSE mem.cut
<1>3. under \in Int
  BY <1>2 DEF Runs, Journals
<1>4. live' = [live EXCEPT !.size = under] /\ mem' = [mem EXCEPT !.size = under]
  OBVIOUS
<1> HIDE DEF under
<1>5. /\ live' \in Runs /\ live'.at = live.at /\ live'.turn = live.turn
      /\ live'.original = live.original /\ live'.new = live.new
      /\ live'.additions = live.additions
  BY <1>2, <1>3, <1>4 DEF Runs
<1>6. Kept(mem', mem) /\ mem'.answered = mem.answered
  BY <1>2, <1>3, <1>4, Marks
<1>7. QED
  BY <1>1, <1>2, <1>5, <1>6, StreamTells

\* An answer is on disk before anything else happens.
LEMMA QuestionAnsweredStep == ChatInv /\ QuestionAnswered => ChatInv'
<1> SUFFICES ASSUME ChatInv, QuestionAnswered
             PROVE  ChatInv'
  OBVIOUS
<1> USE DEF QuestionAnswered, checkpoint
<1>1. Active /\ live.at = "streaming"
  BY DEF Active, Streaming
<1>2. live \in Runs /\ TurnsIn(live.additions) \subseteq {live.turn}
  BY <1>1, ActiveFacts DEF ChatInv, Places, Active
<1>3. live' = [live EXCEPT !.additions = Append(@, Message("asked", live.turn))]
  BY DEF Adds
<1>4. /\ live' \in Runs /\ live'.at = live.at /\ live'.turn = live.turn
      /\ live'.original = live.original /\ live'.new = live.new
      /\ TurnsIn(live'.additions) \subseteq {live.turn}
      /\ live.turn \in AnswersIn(live'.additions)
  <2>1. "asked" \in {"say", "asked"}
    OBVIOUS
  <2>2. AnswersIn(live'.additions) =
          AnswersIn(live.additions) \cup IF "asked" = "asked" THEN {live.turn} ELSE {}
    BY <1>2, <1>3, <2>1, Added
  <2>3. QED
    BY <1>2, <1>3, <2>1, <2>2, Added
<1>5. Kept(mem', mem) /\ mem'.answered = TRUE /\ sidecar' = mem'
  BY <1>1, ActiveFacts, Marks
<1>6. /\ Active' /\ ChatTyped' /\ TurnTyped' /\ Control' /\ Places' /\ Pins' /\ Cuts'
      /\ sidecar' \in Journals /\ sidecar' # None /\ sidecar'.turn = sidecar.turn
      /\ sidecar'.carried = sidecar.carried /\ sidecar'.pinned = sidecar.pinned
      /\ sidecar'.answers = sidecar.answers
  BY <1>1, <1>4, <1>5, StreamKeeps
<1>7. live.turn = sidecar.turn /\ live.turn \in TurnNumbers /\ sidecar # None
  BY <1>1, ActiveFacts DEF Runs
<1>8. HistoryTyped'
  BY <1>7 DEF ChatInv, Typed, HistoryTyped
<1>9. Due' \subseteq Due \cup {live.turn}
  BY DEF Due
<1>10. Own(sidecar)' = {live.turn} /\ Own(sidecar) \subseteq {live.turn}
  BY <1>5, <1>6, <1>7 DEF Own
<1>11. Told(sidecar)'
  <2>1. Told(sidecar)
    BY <1>7 DEF ChatInv, Answers
  <2>2. ~(live.turn < sidecar.turn)
    BY <1>7 DEF TurnNumbers
  <2>3. QED
    BY <1>6, <1>9, <2>1, <2>2 DEF Told
<1>12. request' # None => Told(request)'
  <2>1. request = Sent(mem) /\ request.turn = live.turn
    BY <1>1, ActiveFacts, SentFields DEF ChatInv, Pins
  <2>2. ~(live.turn < request.turn)
    BY <1>7, <2>1 DEF TurnNumbers
  <2>3. QED
    BY <1>9, <2>2 DEF ChatInv, Answers, Told
<1>13. \A t \in Due' : \/ t \in AnswersIn(messages') \cup facts'
                       \/ t \in sidecar'.carried \cup Own(sidecar)'
  <2> SUFFICES ASSUME NEW t \in Due', t \notin AnswersIn(messages) \cup facts
               PROVE  t \in sidecar'.carried \cup Own(sidecar)'
    OBVIOUS
  <2>1. CASE t = live.turn
    BY <2>1, <1>10
  <2>2. CASE t # live.turn
    BY <2>2, <1>6, <1>9, <1>10 DEF ChatInv, Answers
  <2>3. QED
    BY <2>1, <2>2
<1>14. Own(sidecar)' \subseteq answered'
  BY <1>10
<1>15. Answers'
  BY <1>4, <1>6, <1>11, <1>12, <1>13, <1>14 DEF Answers
<1>16. QED
  BY <1>6, <1>8, <1>15 DEF ChatInv, Typed

\* What a compaction returns stands for all of the messages up to its cut.
LEMMA CompactedIsWhole ==
  ASSUME ChatInv, NEW to \in Nat, to <= Len(messages), NEW work,
         NEW sum \in Compacted(to, work)
  PROVE  /\ sum \in Summaries /\ sum # NoSummary /\ sum.cut \in 1..to
         /\ Whole(sum) /\ Within(sum)
<1>1. PICK c \in EntryEnds(summary.cut, to) :
        sum = [cut |-> c, covers |-> summary.covers \cup (summary.cut + 1)..c]
  BY DEF Compacted
<1>2. /\ summary \in Summaries /\ summary.cut \in Nat /\ summary.covers \subseteq Nat
      /\ Len(messages) \in Nat
  BY Values
<1>3. c \in (summary.cut + 1)..to
  BY <1>1 DEF EntryEnds
<1>4. c \in 1..to /\ c > summary.cut
  BY <1>2, <1>3
<1>5. /\ sum.cut = c /\ sum.covers = summary.covers \cup (summary.cut + 1)..c
      /\ sum \in Summaries
  BY <1>1, <1>2, <1>4 DEF Summaries
<1>6. Whole(summary) /\ Within(summary)
  BY DEF ChatInv, Cuts
<1>7. Whole(sum)
  <2> SUFFICES ASSUME NEW p \in 1..c
               PROVE  p \in sum.covers
    BY <1>5 DEF Whole
  <2>1. CASE p <= summary.cut
    BY <2>1, <1>2, <1>5, <1>6 DEF Whole
  <2>2. CASE ~(p <= summary.cut)
    BY <2>2, <1>2, <1>4, <1>5
  <2>3. QED
    BY <2>1, <2>2
<1>8. Within(sum)
  <2>1. (summary.cut + 1)..c \subseteq 1..Len(messages)
    BY <1>2, <1>4
  <2>2. QED
    BY <1>2, <1>4, <1>5, <1>6, <2>1 DEF Within
<1>9. sum # NoSummary
  BY <1>4, <1>5, NoSummaryTyped
<1>10. QED
  BY <1>4, <1>5, <1>7, <1>8, <1>9

LEMMA CompactCommandStep == ChatInv /\ CompactCommand => ChatInv'
<1> SUFFICES ASSUME ChatInv, CompactCommand
             PROVE  ChatInv'
  OBVIOUS
<1> USE DEF CompactCommand, history, NotRunning
<1>1. PICK sum \in Compacted(Len(messages), FALSE) : summary' = sum /\ size' = sum.cut
  OBVIOUS
<1>2. Len(messages) \in Nat /\ Len(messages) <= Len(messages)
  BY Values
<1>3. sum \in Summaries /\ sum.cut \in 1..Len(messages) /\ Whole(sum) /\ Within(sum)
  BY <1>2, CompactedIsWhole
<1>4. ~Active /\ ~Deciding /\ ~Active' /\ ~Deciding' /\ Latest' = Latest
  BY DEF Active, Deciding, Latest
<1> USE DEF ChatInv
<1>5. sum.cut \in Int
  BY <1>3 DEF Summaries
<1>6. Typed'
  BY <1>1, <1>3, <1>5 DEF Typed, ChatTyped, TurnTyped, HistoryTyped
<1>7. Control' /\ Places' /\ Pins'
  BY <1>4 DEF Control, Places, Pins
<1>8. Cuts'
  BY <1>1, <1>3 DEF Cuts, Whole, Within
<1>9. Answers'
  BY <1>4 DEF Answers, Due, Told
<1>10. QED
  BY <1>6, <1>7, <1>8, <1>9

LEMMA SendStep == ChatInv /\ Send => ChatInv'
<1> SUFFICES ASSUME ChatInv, Send
             PROVE  ChatInv'
  OBVIOUS
<1> USE DEF Send, history, NotRunning
<1>1. /\ messages \in Seq(Entries) /\ Len(messages) \in Nat /\ Latest \in Nat
      /\ summary.cut \in Nat /\ Latest + 1 \in TurnNumbers
  BY Values DEF TurnNumbers
<1> DEFINE one == <<Message("human", Latest + 1)>>
<1>2. /\ one \in Seq(Entries) /\ Len(one) = 1
      /\ TurnsIn(one) = {Latest + 1} \ {0} /\ AnswersIn(one) = {}
  BY <1>1, OneMessage
<1>3. messages' = messages \o one
  BY <1>1, MessageTyped, AppendIsConcat
<1> HIDE DEF one
<1>4. /\ messages' \in Seq(Entries) /\ Len(messages) <= Len(messages')
      /\ AnswersIn(messages') = AnswersIn(messages)
      /\ TurnsIn(messages') = TurnsIn(messages) \cup {Latest + 1}
      /\ Len(messages') = Len(messages) + 1
  <2>1. TurnsIn(one) = {Latest + 1}
    BY <1>1, <1>2
  <2>2. /\ messages \o one \in Seq(Entries)
        /\ Len(messages \o one) = Len(messages) + Len(one)
        /\ AnswersIn(messages \o one) = AnswersIn(messages) \cup AnswersIn(one)
        /\ TurnsIn(messages \o one) = TurnsIn(messages) \cup TurnsIn(one)
    BY <1>1, <1>2, Appended
  <2>3. Len(messages') = Len(messages) + 1 /\ Len(messages) <= Len(messages')
    BY <1>1, <1>2, <1>3, <2>2
  <2>4. QED
    BY <1>2, <1>3, <2>1, <2>2, <2>3
<1>5. TurnsIn(messages') = 1..(Latest + 1)
  <2>1. TurnsIn(messages) = 1..Latest
    BY DEF ChatInv, Places
  <2>2. 1..(Latest + 1) = 1..Latest \cup {Latest + 1}
    BY <1>1
  <2>3. QED
    BY <1>4, <2>1, <2>2
<1>6. Latest' = Latest + 1
  <2>1. (\A n \in Nat : TurnsIn(messages) = 1..n => Latest = n)'
    BY LatestCounts, PTL
  <2>2. QED
    BY <1>1, <1>5, <2>1
<1>7. /\ live' \in Runs /\ live'.at = "deciding" /\ live'.turn = Latest + 1
      /\ live'.original = Len(messages) + 1 /\ live'.new = NoSummary
      /\ live'.additions = <<>>
  <2>1. Len(messages) + 1 \in Nat /\ NoSize \in Int
    BY <1>1 DEF NoSize
  <2>2. QED
    BY <1>1, <2>1, NoMessage, NoSummaryTyped DEF Runs
<1>8. live' # None
  BY <1>7, NoneIsNothing
<1>9. ~Active /\ ~Deciding /\ ~Active' /\ Deciding'
  BY <1>7, <1>8 DEF Active, Deciding
<1> USE DEF ChatInv
<1>10. Typed'
  BY <1>4, <1>7 DEF Typed, ChatTyped, TurnTyped, HistoryTyped
<1>11. sidecar # None => sidecar \in Journals /\ sidecar.turn \in Int /\ sidecar.turn <= Latest
  BY Values DEF Places, Journals, TurnNumbers
<1>12. Control'
  BY <1>1, <1>7, <1>9, <1>11 DEF Control
<1>13. Places'
  <2>1. sidecar # None => sidecar.turn <= Latest' /\ sidecar.original \in 1..Len(messages')
    BY <1>1, <1>4, <1>6, <1>11 DEF Places
  <2>2. live'.turn <= Latest' /\ live'.original \in 1..Len(messages')
    BY <1>1, <1>4, <1>6, <1>7
  <2>3. QED
    BY <1>1, <1>5, <1>6, <1>7, <2>1, <2>2, NoMessage DEF Places
<1>14. Pins'
  <2>1. request # None => request.turn \in Int /\ request.turn <= Latest
    BY Values DEF Pins, Requests, TurnNumbers
  <2>2. QED
    BY <1>1, <1>6, <1>7, <1>9, <2>1 DEF Pins
<1>15. Cuts'
  <2>1. Whole(summary) /\ Within(summary)'
    BY <1>1, <1>4 DEF Cuts, Within
  <2>2. sidecar # None => Whole(sidecar) /\ Within(sidecar)' /\ summary.cut < sidecar.original
    BY <1>1, <1>4, <1>11 DEF Cuts, Within, Journals
  <2>3. Whole(live.new)' /\ Within(live.new)'
    BY <1>1, <1>4, <1>7, NoSummaryTyped DEF Whole, Within
  <2>4. summary.cut < live'.original /\ live'.new.cut < live'.original
    BY <1>1, <1>7, NoSummaryTyped DEF Cuts, Within
  <2>5. request # None => Whole(request)
    BY DEF Cuts
  <2>6. Whole(summary)' /\ (sidecar' # None => Whole(sidecar)') /\ (request' # None => Whole(request)')
    BY <2>1, <2>2, <2>5 DEF Whole
  <2>7. QED
    BY <1>8, <2>1, <2>2, <2>3, <2>4, <2>6 DEF Cuts
<1>16. Answers'
  BY <1>4, <1>9 DEF Answers, Due, Told, Own
<1>17. QED
  BY <1>10, <1>12, <1>13, <1>14, <1>15, <1>16

\* What a new turn carries on from the one on disk.
LEMMA FactsTyped ==
  ASSUME ChatInv
  PROVE  /\ FactsOf(sidecar).answers \subseteq TurnNumbers /\ FactsOf(sidecar).size \in Int
         /\ sidecar = None => FactsOf(sidecar).answers = {}
         /\ sidecar # None => FactsOf(sidecar).answers = sidecar.carried \cup Own(sidecar)
<1>1. CASE sidecar = None
  BY <1>1 DEF FactsOf, NoSize
<1>2. CASE sidecar # None
  <2>1. /\ sidecar \in Journals /\ sidecar.carried \subseteq TurnNumbers
        /\ sidecar.turn \in TurnNumbers /\ sidecar.size \in Int /\ sidecar.carriedSize \in Int
    BY <1>2, Values DEF Journals
  <2>2. /\ FactsOf(sidecar).answers = sidecar.carried \cup Own(sidecar)
        /\ FactsOf(sidecar).size = Newer(sidecar.size, sidecar.carriedSize)
    BY <1>2 DEF FactsOf, Own
  <2>3. Own(sidecar) \subseteq TurnNumbers
    BY <2>1 DEF Own
  <2>4. Newer(sidecar.size, sidecar.carriedSize) \in Int
    BY <2>1 DEF Newer
  <2>5. QED
    BY <1>2, <2>1, <2>2, <2>3, <2>4
<1>3. QED
  BY <1>1, <1>2

LEMMA NewJournalTyped ==
  ASSUME ChatInv, Deciding
  PROVE  LET carried == FactsOf(sidecar) j == NewJournal(carried) IN
         /\ j \in Journals /\ j.turn = live.turn /\ j.original = live.original
         /\ j.pinned = "never" /\ j.cut = 0 /\ j.covers = {} /\ j.answered = FALSE
         /\ j.carried = carried.answers
<1> DEFINE carried == FactsOf(sidecar)
           j == NewJournal(carried)
<1>1. live \in Runs /\ live.turn \in TurnNumbers /\ live.original \in Nat
  BY Values DEF Deciding, Runs
<1>2. carried.answers \subseteq TurnNumbers /\ carried.size \in Int
  BY FactsTyped
<1> HIDE DEF carried
<1>3. /\ j.turn = live.turn /\ j.original = live.original
      /\ j.pinned = "never" /\ j.cut = 0 /\ j.covers = {} /\ j.answered = FALSE
      /\ j.carried = carried.answers
  BY DEF NewJournal
<1>4. {} \in SUBSET Nat /\ {} \in SUBSET Int /\ NoSize \in Int /\ 0 \in Nat
  BY DEF NoSize
<1>5. j \in Journals
  BY <1>1, <1>2, <1>4 DEF NewJournal, Journals
<1> HIDE DEF j
<1>6. QED
  BY <1>3, <1>5 DEF j, carried

LEMMA DecidingFacts ==
  ASSUME ChatInv, Deciding
  PROVE  /\ live \in Runs /\ live # None /\ live.turn \in TurnNumbers /\ live.turn \in Int
         /\ live.turn <= Latest /\ live.original \in 1..Len(messages)
         /\ ~Active /\ mem = None
         /\ sidecar # None => sidecar.turn \in Int /\ sidecar.turn < live.turn
         /\ request # None => request.turn \in Int /\ request.turn < live.turn
<1>1. live \in Runs /\ live # None /\ live.turn \in TurnNumbers
  BY Values DEF Deciding, Runs
<1>2. ~Active
  BY DEF Active, Deciding
<1>3. /\ sidecar # None => sidecar.turn \in Int
      /\ request # None => request.turn \in Int
  BY Values DEF Journals, Requests, TurnNumbers
<1>4. QED
  BY <1>1, <1>2, <1>3 DEF ChatInv, Control, Places, Pins, TurnNumbers

LEMMA CancelDecidingStep == ChatInv /\ CancelDeciding => ChatInv'
<1> SUFFICES ASSUME ChatInv, CancelDeciding
             PROVE  ChatInv'
  OBVIOUS
<1> USE DEF CancelDeciding, checkpoint, history
<1>1. Deciding
  BY DEF Deciding
<1> DEFINE carried == FactsOf(sidecar)
<1>2. sidecar' = NewJournal(carried) /\ live' = None
  OBVIOUS
<1>3. /\ sidecar' \in Journals /\ sidecar'.turn = live.turn
      /\ sidecar'.original = live.original /\ sidecar'.pinned = "never"
      /\ sidecar'.cut = 0 /\ sidecar'.covers = {} /\ sidecar'.answered = FALSE
      /\ sidecar'.carried = carried.answers
  BY <1>1, <1>2, NewJournalTyped
<1>4. sidecar' # None
  BY <1>3, NoneIsNothing
<1>5. ~Active' /\ ~Deciding' /\ Latest' = Latest
  BY <1>2 DEF Active, Deciding, Latest
<1> HIDE DEF carried
<1> USE DEF ChatInv
<1>6. Typed'
  BY <1>2, <1>3 DEF Typed, ChatTyped, TurnTyped, HistoryTyped
<1>7. Control'
  BY <1>1, <1>5, DecidingFacts DEF Control
<1>8. Places'
  BY <1>1, <1>2, <1>3, <1>5, DecidingFacts DEF Places
<1>9. Pins'
  BY <1>1, <1>3, <1>5, DecidingFacts DEF Pins
<1>10. Cuts'
  <2>1. Whole(sidecar)' /\ Within(sidecar)'
    BY <1>1, <1>3, DecidingFacts DEF Whole, Within
  <2>2. summary.cut < sidecar'.original
    BY <1>1, <1>3, DecidingFacts DEF Cuts
  <2>3. QED
    BY <1>2, <1>3, <2>1, <2>2 DEF Cuts, Whole, Within
<1>11. Answers'
  <2>1. \A t \in Due : t \in AnswersIn(messages) \cup facts \/ t \in sidecar'.carried
    BY <1>3, FactsTyped DEF Answers, carried
  <2>2. Own(sidecar)' = {}
    BY <1>3 DEF Own
  <2>3. Told(sidecar)'
    BY <1>3 DEF Told
  <2>4. Due' = Due /\ (request # None => Told(request)')
    BY DEF Due, Told, Answers
  <2>5. QED
    BY <1>4, <1>5, <2>1, <2>2, <2>3, <2>4 DEF Answers
<1>12. QED
  BY <1>6, <1>7, <1>8, <1>9, <1>10, <1>11

LEMMA AnswersTyped == \A s \in Seq(Entries) : AnswersIn(s) \subseteq Int
<1> SUFFICES ASSUME NEW s \in Seq(Entries), NEW p \in DOMAIN s
             PROVE  s[p].turn \in Int
  BY DEF AnswersIn
<1>1. s[p] \in Entries
  OBVIOUS
<1>2. QED
  BY <1>1 DEF Entries, TurnNumbers

LEMMA DecideStep == ChatInv /\ Decide => ChatInv'
<1> SUFFICES ASSUME ChatInv, Decide
             PROVE  ChatInv'
  OBVIOUS
<1> USE DEF checkpoint, history
<1> DEFINE carried == FactsOf(sidecar)
           known == Newer(carried.size, size)
           current(sum) == IF sum = NoSummary THEN summary ELSE sum
           pinned(sum) ==
             [NewJournal(carried) EXCEPT
                !.pinned = "first", !.cut = current(sum).cut, !.covers = current(sum).covers,
                !.answers = AnswersIn(messages) \cup facts \cup carried.answers,
                !.known = IF sum = NoSummary THEN known ELSE sum.cut]
<1>1. Deciding /\ UNCHANGED <<messages, summary, size, facts, request, answered, passedBy>>
  BY DEF Deciding, Decide
<1>2. PICK sum \in {NoSummary} \cup (IF known = NoSize THEN {}
                                     ELSE Compacted(live.original - 1, LostWork(sidecar))) :
        /\ mem' = pinned(sum) /\ sidecar' = pinned(sum)
        /\ live' = [live EXCEPT !.at = "running", !.new = sum]
  BY DEF Decide
<1>3. /\ live \in Runs /\ live # None /\ live.original \in 1..Len(messages)
      /\ Len(messages) \in Nat /\ summary \in Summaries
  BY <1>1, DecidingFacts, Values
<1>4. /\ sum \in Summaries /\ Whole(sum) /\ Within(sum) /\ sum.cut < live.original
  <2>1. CASE sum = NoSummary
    BY <2>1, <1>3, NoSummaryTyped DEF Whole, Within
  <2>2. CASE sum # NoSummary
    <3>1. sum \in Compacted(live.original - 1, LostWork(sidecar))
      BY <1>2, <2>2
    <3>2. live.original - 1 \in Nat /\ live.original - 1 <= Len(messages)
      BY <1>3
    <3>3. sum \in Summaries /\ sum.cut \in 1..(live.original - 1) /\ Whole(sum) /\ Within(sum)
      BY <3>1, <3>2, CompactedIsWhole
    <3>4. QED
      BY <1>3, <3>3
  <2>3. QED
    BY <2>1, <2>2
<1>5. /\ current(sum) \in Summaries /\ Whole(current(sum)) /\ Within(current(sum))
  BY <1>3, <1>4 DEF ChatInv, Cuts
<1>6. known \in Int /\ carried.answers \subseteq TurnNumbers
  BY FactsTyped, Values DEF Newer
<1>7. /\ NewJournal(carried) \in Journals /\ NewJournal(carried).turn = live.turn
      /\ NewJournal(carried).original = live.original
      /\ NewJournal(carried).carried = carried.answers
      /\ NewJournal(carried).answered = FALSE
  BY <1>1, NewJournalTyped
<1> DEFINE told == AnswersIn(messages) \cup facts \cup carried.answers
           measured == IF sum = NoSummary THEN known ELSE sum.cut
<1>8. told \subseteq Int /\ measured \in Int
  <2>1. AnswersIn(messages) \subseteq Int /\ facts \subseteq TurnNumbers
    BY AnswersTyped, Values
  <2>2. sum.cut \in Int
    BY <1>4 DEF Summaries
  <2>3. TurnNumbers \subseteq Int
    BY DEF TurnNumbers
  <2>4. QED
    BY <1>6, <2>1, <2>2, <2>3
<1>9. current(sum).cut \in Nat /\ current(sum).covers \subseteq Nat
  BY <1>5 DEF Summaries
<1>10. pinned(sum) = [NewJournal(carried) EXCEPT
         !.pinned = "first", !.cut = current(sum).cut, !.covers = current(sum).covers,
         !.answers = told, !.known = measured]
  OBVIOUS
<1> HIDE DEF pinned, current, told, measured
<1>11. /\ pinned(sum) \in Journals /\ pinned(sum).turn = live.turn
       /\ pinned(sum).original = live.original /\ pinned(sum).pinned = "first"
       /\ pinned(sum).cut = current(sum).cut /\ pinned(sum).covers = current(sum).covers
       /\ pinned(sum).answers = told /\ pinned(sum).answered = FALSE
       /\ pinned(sum).carried = carried.answers
  <2> DEFINE base == NewJournal(carried)
             cut == current(sum).cut
             covers == current(sum).covers
  <2>1. /\ base \in Journals /\ cut \in Nat /\ covers \in SUBSET Nat
        /\ told \in SUBSET Int /\ measured \in Int
    BY <1>7, <1>8, <1>9
  <2>2. pinned(sum) = [base EXCEPT !.pinned = "first", !.cut = cut, !.covers = covers,
                                   !.answers = told, !.known = measured]
    BY <1>10
  <2>3. base.turn = live.turn /\ base.original = live.original
        /\ base.answered = FALSE /\ base.carried = carried.answers
    BY <1>7
  <2> HIDE DEF base, cut, covers
  <2>4. /\ pinned(sum) \in Journals /\ pinned(sum).turn = base.turn
        /\ pinned(sum).original = base.original /\ pinned(sum).pinned = "first"
        /\ pinned(sum).cut = cut /\ pinned(sum).covers = covers
        /\ pinned(sum).answers = told /\ pinned(sum).answered = base.answered
        /\ pinned(sum).carried = base.carried
    <3>1. pinned(sum) \in Journals
      BY <2>1, <2>2 DEF Journals
    <3>2. QED
      BY <2>1, <2>2, <3>1 DEF Journals
  <2>5. QED
    BY <2>3, <2>4 DEF cut, covers
<1>12. /\ live' \in Runs /\ live'.at = "running" /\ live'.turn = live.turn
       /\ live'.original = live.original /\ live'.new = sum
       /\ live'.additions = live.additions
  BY <1>2, <1>3, <1>4 DEF Runs
<1>13. mem' = pinned(sum) /\ sidecar' = pinned(sum)
  BY <1>2
<1> HIDE DEF carried, known
<1>14. sidecar' # None /\ live' # None
  BY <1>11, <1>12, <1>13, NoneIsNothing
<1>15. Active' /\ ~Deciding' /\ Latest' = Latest
  BY <1>1, <1>12, <1>14 DEF Active, Deciding, Latest
<1> USE DEF ChatInv
<1>16. Typed'
  BY <1>1, <1>11, <1>12, <1>13 DEF Typed, ChatTyped, TurnTyped, HistoryTyped
<1>17. Control'
  BY <1>11, <1>12, <1>13, <1>15 DEF Control
<1>18. Places'
  BY <1>1, <1>3, <1>11, <1>12, <1>13, <1>15, DecidingFacts DEF Places
<1>19. Pins'
  BY <1>1, <1>11, <1>12, <1>13, <1>15, DecidingFacts DEF Pins
<1>20. Cuts'
  <2>1. Whole(sidecar)' /\ Within(sidecar)'
    BY <1>1, <1>5, <1>11, <1>13 DEF Whole, Within
  <2>2. Whole(live.new)' /\ Within(live.new)'
    BY <1>1, <1>4, <1>12 DEF Whole, Within
  <2>3. summary'.cut < sidecar'.original
    BY <1>1, <1>3, <1>11, <1>13 DEF Cuts
  <2>4. /\ Whole(summary)' /\ Within(summary)' /\ (request' # None => Whole(request)')
    BY <1>1 DEF Cuts, Whole, Within
  <2>5. QED
    BY <1>4, <1>11, <1>12, <1>13, <2>1, <2>2, <2>3, <2>4 DEF Cuts
<1>21. Answers'
  <2>1. \A t \in Due : t \in AnswersIn(messages) \cup facts \/ t \in carried.answers
    BY FactsTyped DEF Answers, carried
  <2>2. Own(sidecar)' = {}
    BY <1>11, <1>13 DEF Own
  <2>3. Due' = Due /\ (request # None => Told(request)')
    BY <1>1 DEF Due, Told, Answers
  <2>4. Told(sidecar)'
    BY <1>11, <1>13, <2>1, <2>3 DEF Told, told
  <2>5. ~(Active' /\ mem'.answered)
    BY <1>11, <1>13
  <2>6. \A t \in Due' : t \in AnswersIn(messages') \cup facts' \/ t \in sidecar'.carried
    BY <1>1, <1>11, <1>13, <2>1, <2>3
  <2>7. QED
    BY <1>1, <1>14, <2>2, <2>3, <2>4, <2>5, <2>6 DEF Answers
<1>22. QED
  BY <1>16, <1>17, <1>18, <1>19, <1>20, <1>21

\* A journal on disk, as a resume takes it up.
LEMMA PinnedTyped ==
  ASSUME ChatInv, sidecar # None
  PROVE  LET j == Pinned(sidecar) IN
         /\ j \in Journals /\ j.turn = sidecar.turn /\ j.original = sidecar.original
         /\ j.cut = sidecar.cut /\ j.carried = sidecar.carried
         /\ j.answered = sidecar.answered /\ j.pinned # "never"
         /\ sidecar.pinned # "never" => j = sidecar
         /\ sidecar.pinned = "never" => j.pinned = "resumed" /\ j.covers = summary.covers
<1>1. /\ sidecar \in Journals /\ summary.covers \subseteq Nat
      /\ AnswersIn(messages) \subseteq Int /\ facts \subseteq TurnNumbers /\ TurnNumbers \subseteq Int
  BY Values, AnswersTyped DEF TurnNumbers
<1> DEFINE now == AnswersIn(messages) \cup facts
<1>2. now \subseteq Int
  BY <1>1
<1>3. Pinned(sidecar) = IF sidecar.pinned # "never" THEN sidecar
                        ELSE [sidecar EXCEPT !.pinned = "resumed", !.covers = summary.covers,
                                             !.answers = now]
  BY DEF Pinned
<1> HIDE DEF now
<1>4. CASE sidecar.pinned # "never"
  BY <1>1, <1>3, <1>4
<1>5. CASE sidecar.pinned = "never"
  <2>1. Pinned(sidecar) = [sidecar EXCEPT !.pinned = "resumed", !.covers = summary.covers,
                                          !.answers = now]
    BY <1>3, <1>5
  <2>2. QED
    BY <1>1, <1>2, <1>5, <2>1 DEF Journals
<1>6. QED
  BY <1>4, <1>5

\* More messages of turns there are keep the numbers of the turns.
LEMMA LongerPlaces ==
  ASSUME ChatInv, NEW more \in Seq(Entries), TurnsIn(more) \subseteq 1..Latest,
         messages' = messages \o more
  PROVE  /\ messages' \in Seq(Entries) /\ Len(messages) <= Len(messages')
         /\ Len(messages') \in Nat /\ Len(messages) \in Nat
         /\ AnswersIn(messages') = AnswersIn(messages) \cup AnswersIn(more)
         /\ TurnsIn(messages') = 1..Latest /\ Latest' = Latest
         /\ \A s \in Summaries \cup Journals :
               Within(s) => s.cut <= Len(messages') /\ s.covers \subseteq 1..Len(messages')
<1>1. messages \in Seq(Entries) /\ Latest \in Nat /\ TurnsIn(messages) = 1..Latest
  BY Values DEF ChatInv, Places
<1>2. /\ messages' \in Seq(Entries) /\ Len(messages) <= Len(messages')
      /\ AnswersIn(messages') = AnswersIn(messages) \cup AnswersIn(more)
      /\ TurnsIn(messages') = TurnsIn(messages) \cup TurnsIn(more)
  BY <1>1, Appended
<1>3. Len(messages') \in Nat /\ Len(messages) \in Nat
  BY <1>1, <1>2
<1>4. TurnsIn(messages') = 1..Latest
  BY <1>1, <1>2
<1>5. (\A n \in Nat : TurnsIn(messages) = 1..n => Latest = n)'
  BY LatestCounts, PTL
<1>6. Latest' = Latest
  BY <1>1, <1>4, <1>5
<1>7. 1..Len(messages) \subseteq 1..Len(messages')
  BY <1>2, <1>3
<1>8. \A s \in Summaries \cup Journals :
         Within(s) => s.cut <= Len(messages') /\ s.covers \subseteq 1..Len(messages')
  BY <1>2, <1>3, <1>7 DEF Within, Summaries, Journals
<1>9. QED
  BY <1>2, <1>3, <1>4, <1>6, <1>8

LEMMA ResumeStep == ChatInv /\ Resume => ChatInv'
<1> SUFFICES ASSUME ChatInv, Resume
             PROVE  ChatInv'
  OBVIOUS
<1>1. /\ sidecar # None /\ live = None /\ mem' = Pinned(sidecar) /\ sidecar' = mem'
      /\ passedBy' = IF sidecar.answered /\ sidecar.turn \notin AnswersIn(messages)
                     THEN passedBy \cup {sidecar.turn} ELSE passedBy
      /\ UNCHANGED <<summary, size, facts, request, answered>>
  BY DEF Resume, NotRunning
<1>2. PICK typed \in {<<>>, <<Message("human", 0)>>} : messages' = messages \o typed
  BY DEF Resume
<1>3. /\ sidecar \in Journals /\ sidecar.turn \in TurnNumbers /\ sidecar.turn <= Latest
      /\ sidecar.turn \in Int /\ sidecar.original \in 1..Len(messages) /\ Latest \in Nat
  BY <1>1, Values DEF ChatInv, Places, Journals, TurnNumbers
<1>4. typed \in Seq(Entries) /\ TurnsIn(typed) = {}
  <2>1. "human" \in {"human", "say", "asked"} /\ 0 \in TurnNumbers \cup {0}
    OBVIOUS
  <2>2. <<Message("human", 0)>> \in Seq(Entries) /\ TurnsIn(<<Message("human", 0)>>) = {0} \ {0}
    BY <2>1, OneMessage
  <2>3. QED
    BY <2>2, NoMessage
<1>5. /\ messages' \in Seq(Entries) /\ Len(messages) <= Len(messages')
      /\ Len(messages') \in Nat /\ Len(messages) \in Nat
      /\ AnswersIn(messages) \subseteq AnswersIn(messages')
      /\ TurnsIn(messages') = 1..Latest /\ Latest' = Latest
      /\ \A s \in Summaries \cup Journals :
            Within(s) => s.cut <= Len(messages') /\ s.covers \subseteq 1..Len(messages')
  BY <1>2, <1>4, LongerPlaces
<1> DEFINE j == Pinned(sidecar)
<1>6. /\ j \in Journals /\ j.turn = sidecar.turn /\ j.original = sidecar.original
      /\ j.cut = sidecar.cut /\ j.carried = sidecar.carried
      /\ j.answered = sidecar.answered /\ j.pinned # "never"
      /\ sidecar.pinned # "never" => j = sidecar
      /\ sidecar.pinned = "never" => j.pinned = "resumed" /\ j.covers = summary.covers
  BY <1>1, PinnedTyped
<1>7. sidecar' = j /\ mem' = j
  BY <1>1
<1> HIDE DEF j
<1>8. /\ live' \in Runs /\ live'.turn = sidecar.turn /\ live'.at = "running"
      /\ live'.original = sidecar.original /\ live'.new = NoSummary
      /\ TurnsIn(live'.additions) \subseteq {sidecar.turn}
  <2> DEFINE say == <<Message("say", sidecar.turn)>>
  <2>1. PICK adds \in {<<>>, say} :
          live' = [turn |-> sidecar.turn, at |-> "running", original |-> sidecar.original,
                   new |-> NoSummary, size |-> NoSize, shrunk |-> FALSE, additions |-> adds]
    <3> DEFINE reached == \E p \in (sidecar.original + 1)..Len(messages) : messages[p].kind # "human"
               adds == IF sidecar.said /\ ~reached THEN say ELSE <<>>
    <3>1. live' = [turn |-> sidecar.turn, at |-> "running", original |-> sidecar.original,
                   new |-> NoSummary, size |-> NoSize, shrunk |-> FALSE, additions |-> adds]
      BY DEF Resume
    <3>2. adds \in {<<>>, say}
      OBVIOUS
    <3> HIDE DEF adds, say
    <3>3. QED
      BY <3>1, <3>2
  <2>2. say \in Seq(Entries) /\ TurnsIn(say) \subseteq {sidecar.turn}
    BY <1>3, OneMessage
  <2> HIDE DEF say
  <2>3. adds \in Seq(Entries) /\ TurnsIn(adds) \subseteq {sidecar.turn}
    BY <2>2, NoMessage
  <2>4. sidecar.original \in Nat /\ NoSize \in Int
    BY <1>3 DEF NoSize
  <2>5. QED
    BY <1>3, <2>1, <2>3, <2>4, NoSummaryTyped DEF Runs
<1>9. sidecar' # None /\ live' # None /\ mem' # None
  BY <1>6, <1>7, <1>8, NoneIsNothing
<1>10. Active' /\ ~Deciding' /\ ~Active /\ ~Deciding
  BY <1>1, <1>8, <1>9 DEF Active, Deciding
<1>11. Typed'
  <2>1. ChatTyped'
    BY <1>1, <1>5 DEF ChatInv, Typed, ChatTyped
  <2>2. TurnTyped'
    BY <1>1, <1>6, <1>7, <1>8 DEF ChatInv, Typed, TurnTyped
  <2>3. sidecar.answered => sidecar.turn \in answered
    BY <1>1 DEF ChatInv, Answers, Own
  <2>4. HistoryTyped'
    BY <1>1, <2>3 DEF ChatInv, Typed, HistoryTyped
  <2>5. QED
    BY <2>1, <2>2, <2>4 DEF Typed
<1>12. Control'
  BY <1>6, <1>7, <1>8, <1>10 DEF Control
<1>13. Places'
  <2>1. sidecar'.turn <= Latest' /\ sidecar'.original \in 1..Len(messages')
    BY <1>3, <1>5, <1>6, <1>7
  <2>2. live'.turn <= Latest' /\ live'.original \in 1..Len(messages')
    BY <1>3, <1>5, <1>8
  <2>3. QED
    BY <1>3, <1>5, <1>8, <2>1, <2>2 DEF Places
<1>14. Pins'
  <2>1. ASSUME request # None
        PROVE  /\ request.turn <= Latest /\ request.pinned # "never"
               /\ request.turn <= j.turn
               /\ j.turn = request.turn => Sent(j) = request
    <3>1. /\ request.turn <= Latest /\ request.pinned # "never" /\ request.turn <= sidecar.turn
          /\ sidecar.turn = request.turn => Sent(sidecar) = request
      BY <1>1, <2>1 DEF ChatInv, Pins
    <3>2. sidecar.turn = request.turn => sidecar.pinned # "never"
      BY <1>3, <3>1, SentFields
    <3>3. QED
      BY <1>6, <3>1, <3>2
  <2>2. QED
    BY <1>1, <1>5, <1>7, <1>8, <1>10, <2>1 DEF Pins
<1>15. Cuts'
  <2>1. /\ Whole(summary) /\ Within(summary) /\ Whole(sidecar) /\ Within(sidecar)
        /\ summary.cut < sidecar.original /\ summary \in Summaries
        /\ sidecar.pinned = "never" => sidecar.cut = 0
    BY <1>1, Values DEF ChatInv, Cuts
  <2>2. Whole(summary)' /\ Within(summary)'
    BY <1>1, <1>5, <2>1 DEF Whole, Within
  <2>3. Whole(j)
    BY <1>6, <2>1 DEF Whole
  <2>4. j.cut <= Len(messages') /\ j.covers \subseteq 1..Len(messages')
    <3>1. CASE sidecar.pinned # "never"
      BY <1>3, <1>5, <1>6, <2>1, <3>1
    <3>2. CASE sidecar.pinned = "never"
      BY <1>5, <1>6, <2>1, <3>2
    <3>3. QED
      BY <3>1, <3>2
  <2>5. Whole(sidecar)' /\ Within(sidecar)' /\ summary'.cut < sidecar'.original
    BY <1>1, <1>6, <1>7, <2>1, <2>3, <2>4 DEF Whole, Within
  <2>6. /\ Whole(live.new)' /\ Within(live.new)'
        /\ summary'.cut < live'.original /\ live'.new.cut < live'.original
    BY <1>1, <1>3, <1>5, <1>8, <2>1, NoSummaryTyped DEF Whole, Within
  <2>7. request' # None => Whole(request)'
    BY <1>1 DEF ChatInv, Cuts, Whole
  <2>8. QED
    BY <1>6, <1>7, <2>2, <2>5, <2>6, <2>7 DEF Cuts
<1>16. Answers'
  <2>1. Due' \subseteq Due
    BY <1>1 DEF Due
  <2>2. Own(sidecar)' = Own(sidecar) /\ sidecar'.carried = sidecar.carried
    BY <1>6, <1>7 DEF Own
  <2>3. Told(sidecar)'
    <3>1. Told(sidecar)
      BY <1>1 DEF ChatInv, Answers
    <3>2. CASE sidecar.pinned # "never"
      BY <1>6, <1>7, <2>1, <3>1, <3>2 DEF Told
    <3>3. CASE sidecar.pinned = "never"
      BY <1>6, <1>7, <3>3 DEF Told
    <3>4. QED
      BY <3>2, <3>3
  <2>4. request' # None => Told(request)'
    BY <1>1, <2>1 DEF ChatInv, Answers, Told
  <2>5. mem'.answered => live'.turn \in AnswersIn(messages') \cup passedBy'
    BY <1>1, <1>5, <1>6, <1>7, <1>8
  <2>6. \A t \in Due' : \/ t \in AnswersIn(messages') \cup facts'
                        \/ t \in sidecar'.carried \cup Own(sidecar)'
    BY <1>1, <1>5, <2>1, <2>2 DEF ChatInv, Answers
  <2>7. Own(sidecar)' \subseteq answered'
    BY <1>1, <2>2 DEF ChatInv, Answers
  <2>8. QED
    BY <1>9, <2>3, <2>4, <2>5, <2>6, <2>7 DEF Answers
<1>17. QED
  BY <1>11, <1>12, <1>13, <1>14, <1>15, <1>16 DEF ChatInv

\* The text that stands for the history at the end of a turn.
LEMMA EndSummary ==
  ASSUME ChatInv, Ends
  PROVE  /\ summary' \in Summaries /\ Whole(summary)' /\ summary'.cut < live.original
         /\ summary'.cut <= Len(messages) /\ summary'.covers \subseteq 1..Len(messages)
<1>1. Active /\ live # None
  BY DEF Ends, Streaming, Active
<1>2. /\ live \in Runs /\ live.original \in 1..Len(messages) /\ Len(messages) \in Nat
      /\ live.new \in Summaries /\ summary \in Summaries /\ mem \in Journals
      /\ mem.cut \in Nat /\ summary.cut \in Nat /\ live.new.cut \in Nat
      /\ mem.covers \subseteq Nat
  BY <1>1, ActiveFacts, Values DEF ChatInv, Places, Runs, Summaries, Journals
<1>3. /\ Whole(summary) /\ Within(summary) /\ summary.cut < live.original
      /\ Whole(live.new) /\ Within(live.new) /\ live.new.cut < live.original
      /\ Whole(mem) /\ Within(mem)
  <2>1. Whole(sidecar) /\ Within(sidecar)
    BY <1>1, ActiveFacts DEF ChatInv, Cuts
  <2>2. QED
    BY <1>1, <2>1, ActiveFacts DEF ChatInv, Cuts, Whole, Within
<1> DEFINE covers == mem.covers \cup (mem.cut + 1)..(live.original - 1)
<1>4. summary' = IF live.shrunk THEN [cut |-> InTurnCut, covers |-> covers]
                 ELSE IF live.new # NoSummary THEN live.new ELSE summary
  BY DEF Ends
<1>5. CASE live.shrunk
  <2>1. InTurnCut \in Nat /\ InTurnCut <= live.original - 1
    BY <1>2, <1>3 DEF InTurnCut
  <2>2. covers \subseteq 1..Len(messages)
    BY <1>2, <1>3 DEF Within
  <2>3. \A p \in 1..(live.original - 1) : p \in covers
    <3> SUFFICES ASSUME NEW p \in 1..(live.original - 1)
                 PROVE  p \in covers
      OBVIOUS
    <3>1. CASE p <= mem.cut
      BY <3>1, <1>2, <1>3 DEF Whole
    <3>2. CASE ~(p <= mem.cut)
      BY <3>2, <1>2
    <3>3. QED
      BY <3>1, <3>2
  <2> HIDE DEF covers
  <2>4. summary'.cut = InTurnCut /\ summary'.covers = covers /\ summary' \in Summaries
    BY <1>4, <1>5, <2>1, <2>2 DEF Summaries
  <2>5. Whole(summary)'
    BY <1>2, <2>1, <2>3, <2>4 DEF Whole
  <2>6. QED
    BY <1>2, <2>1, <2>2, <2>4, <2>5
<1> HIDE DEF covers
<1>6. CASE ~live.shrunk
  <2>1. summary' \in {live.new, summary}
    BY <1>4, <1>6
  <2>2. QED
    BY <1>2, <1>3, <2>1 DEF Whole, Within
<1>7. QED
  BY <1>5, <1>6

LEMMA EndsStep == ChatInv /\ Ends => ChatInv'
<1> SUFFICES ASSUME ChatInv, Ends
             PROVE  ChatInv'
  OBVIOUS
<1>1. /\ Active /\ live.at = "streaming" /\ live # None
      /\ live' = None /\ mem' = None /\ facts' = facts \cup mem.carried
      /\ UNCHANGED <<request, answered, passedBy>>
  BY DEF Ends, Streaming, Active, history
<1>2. sidecar' \in {mem, None}
  BY DEF Ends
<1>3. /\ live \in Runs /\ live.turn \in TurnNumbers /\ live.turn \in 1..Latest
      /\ live.additions \in Seq(Entries) /\ TurnsIn(live.additions) \subseteq {live.turn}
      /\ live.size \in Int /\ live.new \in Summaries
  <2>1. live \in Runs /\ live.turn <= Latest /\ TurnsIn(live.additions) \subseteq {live.turn}
    BY <1>1, ActiveFacts DEF ChatInv, Places
  <2>2. QED
    BY <2>1, Values DEF Runs, TurnNumbers
<1>4. PICK more \in Seq(Entries) :
        /\ messages' = messages \o more /\ TurnsIn(more) \subseteq 1..Latest
        /\ AnswersIn(live.additions) \subseteq AnswersIn(more)
  <2> DEFINE say == <<Message("say", live.turn)>>
  <2>1. PICK text \in BOOLEAN : messages' = messages \o live.additions \o (IF text THEN say ELSE <<>>)
    BY DEF Ends
  <2>2. "say" \in {"human", "say", "asked"} /\ live.turn \in TurnNumbers \cup {0}
    BY <1>3
  <2>3. say \in Seq(Entries) /\ TurnsIn(say) = {live.turn} \ {0}
    BY <2>2, OneMessage
  <2> DEFINE last == IF text THEN say ELSE <<>>
  <2>4. last \in Seq(Entries) /\ TurnsIn(last) \subseteq {live.turn}
    BY <2>3, NoMessage
  <2>5. messages' = messages \o live.additions \o last
    BY <2>1
  <2> HIDE DEF last, say
  <2>6. messages' = messages \o (live.additions \o last)
    <3>1. messages \in Seq(Entries)
      BY Values
    <3>2. (messages \o live.additions) \o last = messages \o (live.additions \o last)
      BY <1>3, <2>4, <3>1, Associates, Zenon
    <3>3. QED
      BY <2>5, <3>2
  <2>7. /\ live.additions \o last \in Seq(Entries)
        /\ TurnsIn(live.additions \o last) = TurnsIn(live.additions) \cup TurnsIn(last)
        /\ AnswersIn(live.additions \o last) = AnswersIn(live.additions) \cup AnswersIn(last)
    BY <1>3, <2>4, Appended
  <2>8. QED
    BY <1>3, <2>4, <2>6, <2>7
<1>5. /\ messages' \in Seq(Entries) /\ Len(messages) <= Len(messages')
      /\ Len(messages') \in Nat /\ Len(messages) \in Nat
      /\ AnswersIn(messages') = AnswersIn(messages) \cup AnswersIn(more)
      /\ TurnsIn(messages') = 1..Latest /\ Latest' = Latest
      /\ \A s \in Summaries \cup Journals :
            Within(s) => s.cut <= Len(messages') /\ s.covers \subseteq 1..Len(messages')
  BY <1>4, LongerPlaces
<1>6. /\ mem \in Journals /\ sidecar \in Journals /\ sidecar # None
      /\ mem # None /\ Sent(sidecar) = Sent(mem) /\ mem.carried = sidecar.carried
      /\ mem.answered = sidecar.answered /\ mem.pinned # "never"
      /\ live.turn = mem.turn /\ live.original = mem.original
      /\ sidecar.turn = mem.turn /\ sidecar.original = mem.original
      /\ sidecar.pinned = mem.pinned /\ sidecar.cut = mem.cut
      /\ sidecar.covers = mem.covers /\ sidecar.answers = mem.answers
      /\ Own(mem) = Own(sidecar)
  BY <1>1, ActiveFacts
<1>7. ~Active' /\ ~Deciding' /\ ~Deciding
  BY <1>1 DEF Active, Deciding
<1>8. /\ summary' \in Summaries /\ Whole(summary)' /\ summary'.cut < live.original
      /\ summary'.cut <= Len(messages) /\ summary'.covers \subseteq 1..Len(messages)
      /\ summary'.cut \in Nat
  BY EndSummary DEF Summaries
<1>9. size' \in Int
  <2>1. size \in Int /\ mem.carriedSize \in Int /\ live.new.cut \in Int
    BY <1>3, <1>6, Values DEF Journals, Summaries
  <2> DEFINE before == IF live.new # NoSummary THEN live.new.cut ELSE Newer(mem.carriedSize, size)
  <2>2. before \in Int
    BY <2>1 DEF Newer
  <2>3. size' = Newer(live.size, before)
    BY DEF Ends
  <2> HIDE DEF before
  <2>4. QED
    BY <1>3, <2>2, <2>3 DEF Newer
<1>10. Typed'
  <2>1. facts' \in SUBSET TurnNumbers
    BY <1>1, <1>6, Values DEF Journals
  <2>2. ChatTyped'
    BY <1>5, <1>8, <1>9, <2>1 DEF ChatTyped
  <2>3. TurnTyped' /\ HistoryTyped'
    BY <1>1, <1>2, <1>6 DEF ChatInv, Typed, TurnTyped, HistoryTyped
  <2>4. QED
    BY <2>2, <2>3 DEF Typed
<1>11. Control'
  BY <1>1, <1>7 DEF Control
<1>12. Places'
  <2>1. /\ sidecar.turn <= Latest /\ sidecar.original \in 1..Len(messages) /\ Latest \in Nat
    BY <1>6 DEF ChatInv, Places
  <2>2. sidecar' # None => sidecar'.turn <= Latest' /\ sidecar'.original \in 1..Len(messages')
    BY <1>2, <1>5, <1>6, <2>1
  <2>3. QED
    BY <1>1, <1>5, <2>1, <2>2 DEF Places
<1>13. Pins'
  BY <1>1, <1>2, <1>5, <1>6, <1>7 DEF ChatInv, Pins
<1>14. Cuts'
  <2>1. Whole(sidecar) /\ Within(sidecar) /\ (request # None => Whole(request))
    BY <1>6 DEF ChatInv, Cuts
  <2>2. Within(summary)'
    BY <1>5, <1>8 DEF Within
  <2>3. sidecar' # None => Whole(sidecar)' /\ Within(sidecar)' /\ summary'.cut < sidecar'.original
    BY <1>2, <1>5, <1>6, <1>8, <2>1 DEF Whole, Within
  <2>4. ~(sidecar' # None /\ sidecar'.pinned = "never")
    BY <1>2, <1>6
  <2>5. request' # None => Whole(request)'
    BY <1>1, <2>1 DEF Whole
  <2>6. QED
    BY <1>1, <1>8, <2>2, <2>3, <2>4, <2>5 DEF Cuts
<1>15. Answers'
  <2>1. Due' = Due /\ Own(sidecar) \subseteq {live.turn}
    BY <1>1, <1>6 DEF Due, Own
  <2>2. \A t \in Due' : t \in AnswersIn(messages') \cup facts'
    <3> SUFFICES ASSUME NEW t \in Due, t \notin AnswersIn(messages) \cup facts,
                        t \notin mem.carried
                 PROVE  t \in AnswersIn(messages')
      BY <1>1, <1>5, <2>1
    <3>1. t \in Own(sidecar)
      BY <1>6 DEF ChatInv, Answers
    <3>2. t = live.turn /\ mem.answered
      BY <1>6, <2>1, <3>1 DEF Own
    <3>3. t \in AnswersIn(live.additions) \/ t \in AnswersIn(messages) \cup passedBy
      BY <1>1, <3>2 DEF ChatInv, Answers
    <3>4. t \notin passedBy
      BY DEF Due
    <3>5. QED
      BY <1>4, <1>5, <3>3, <3>4
  <2>3. sidecar' # None => Own(sidecar)' \subseteq answered' /\ Told(sidecar)'
    <3>1. Own(sidecar) \subseteq answered /\ Told(sidecar)
      BY <1>6 DEF ChatInv, Answers
    <3>2. Own(mem) \subseteq answered /\ Told(mem)
      BY <1>6, <3>1 DEF Told
    <3>3. CASE sidecar' = mem
      BY <1>1, <2>1, <3>2, <3>3 DEF Own, Told
    <3>4. QED
      BY <1>2, <3>3
  <2>4. request' # None => Told(request)'
    BY <1>1, <2>1 DEF ChatInv, Answers, Told
  <2>5. QED
    BY <1>7, <2>2, <2>3, <2>4 DEF Answers
<1>16. QED
  BY <1>10, <1>11, <1>12, <1>13, <1>14, <1>15 DEF ChatInv

----------------------------------------------------------------------------
(* Theorems *)

LEMMA ChatStep == ChatInv /\ [ContextNext]_contextVars => ChatInv'
<1> SUFFICES ASSUME ChatInv, [ContextNext]_contextVars
             PROVE  ChatInv'
  OBVIOUS
<1>1. CASE ContextNext
  BY <1>1, CompactCommandStep, SendStep, DecideStep, CancelDecidingStep, AttemptStep,
     ResumeStep, TextStep, QuestionAnsweredStep, InTurnCompactionStep, MeasuredStep,
     EndsStep, CancelStep, KillStep DEF ContextNext
<1>2. CASE UNCHANGED contextVars
  <2>1. Latest' = Latest /\ (Active <=> Active') /\ (Deciding <=> Deciding')
    BY <1>2 DEF contextVars, Latest, Active, Deciding
  <2>2. Typed'
    BY <1>2 DEF contextVars, ChatInv, Typed, ChatTyped, TurnTyped, HistoryTyped
  <2>3. Control' /\ Places' /\ Pins'
    BY <1>2, <2>1 DEF contextVars, ChatInv, Control, Places, Pins
  <2>4. Cuts'
    BY <1>2 DEF contextVars, ChatInv, Cuts, Whole, Within
  <2>5. Answers'
    BY <1>2, <2>1 DEF contextVars, ChatInv, Answers, Due, Own, Told
  <2>6. QED
    BY <2>2, <2>3, <2>4, <2>5 DEF ChatInv
<1>3. QED
  BY <1>1, <1>2

LEMMA ChatInvariant == ContextSpec => []ChatInv
BY ChatInit, ChatStep, PTL DEF ContextSpec

\* The chat's state keeps its types: among them, the summary never stands for a
\* message that is not there, and no answer is passed by that was not given.
THEOREM ContextTypeCorrect == ContextSpec => []ContextTypeOK
<1>1. ChatInv => ContextTypeOK
  <2> SUFFICES ASSUME ChatInv
               PROVE  ContextTypeOK
    OBVIOUS
  <2>1. ChatTyped /\ HistoryTyped
    BY DEF ChatInv, Typed
  <2>2. messages \in Seq([kind : {"human", "say", "asked"}, turn : TurnNumbers \cup {0}])
    BY <2>1 DEF ChatTyped, Entries
  <2>3. summary.cut \in 0..Len(messages) /\ summary.covers \subseteq 1..Len(messages)
    BY Values DEF ChatInv, Cuts, Within
  <2>4. (live = None) = (mem = None) \/ live.at = "deciding"
    BY NoneIsNothing DEF ChatInv, Control, Active
  <2>5. QED
    BY <2>1, <2>2, <2>3, <2>4 DEF ContextTypeOK, ChatTyped, HistoryTyped
<1>2. QED
  BY <1>1, ChatInvariant, PTL

\* Every message before a query is sent to the model, or the summary that is sent
\* stands for it, however often the chat was compacted, cancelled and resumed.
THEOREM HistoryReachesTheModel == ContextSpec => []HistoryOrSummary
<1>1. ChatInv => HistoryOrSummary
  <2> SUFFICES ASSUME ChatInv, request # None, NEW p \in 1..(request.original - 1)
               PROVE  p > request.cut \/ p \in request.covers
    BY DEF HistoryOrSummary
  <2>1. Whole(request) /\ request.cut \in Nat /\ request.original \in Nat
    BY Values DEF ChatInv, Cuts, Requests
  <2>2. QED
    BY <2>1 DEF Whole
<1>2. QED
  BY <1>1, ChatInvariant, PTL

\* A new turn lets the model know every answer given before it that the code
\* carries on, also those of turns that were interrupted and superseded.
THEOREM AnswersReachTheModel == ContextSpec => []SupersededAnswersAreSent
<1>1. ChatInv => SupersededAnswersAreSent
  BY DEF ChatInv, Answers, Told, Due, SupersededAnswersAreSent
<1>2. QED
  BY <1>1, ChatInvariant, PTL

\* All attempts of a turn send the same state and cut, also after a kill, in
\* another process and whatever was compacted or answered meanwhile.
THEOREM AttemptsRepeat == ContextSpec => AttemptsSendTheSame
<1>1. ChatInv /\ [ContextNext]_contextVars =>
        [request # None /\ request'.turn = request.turn => request' = request]_contextVars
  <2> SUFFICES ASSUME ChatInv, [ContextNext]_contextVars, request # None,
                      request'.turn = request.turn
               PROVE  request' = request
    OBVIOUS
  <2>1. CASE Attempt
    <3>1. Active /\ request' = Sent(mem)
      BY <2>1 DEF Attempt, Active, Payload
    <3>2. /\ sidecar # None /\ Sent(sidecar) = Sent(mem) /\ sidecar.turn = mem.turn
          /\ Sent(mem).turn = mem.turn
      BY <3>1, ActiveFacts, SentFields
    <3>3. sidecar.turn = request.turn
      BY <3>1, <3>2
    <3>4. Sent(sidecar) = request
      BY <3>2, <3>3 DEF ChatInv, Pins
    <3>5. QED
      BY <3>1, <3>2, <3>4
  <2>2. CASE ~Attempt
    BY <2>2 DEF ContextNext, contextVars, CompactCommand, Send, Decide, CancelDeciding,
       Resume, Text, QuestionAnswered, InTurnCompaction, Measured, Ends, Cancel, Kill
  <2>3. QED
    BY <2>1, <2>2
<1>2. QED
  BY <1>1, ChatInvariant, PTL DEF ContextSpec, AttemptsSendTheSame

----------------------------------------------------------------------------
(* The database: the arithmetic of retention *)

LEMMA IdsAreFinite ==
  ASSUME NEW S, S \subseteq Ids
  PROVE  IsFiniteSet(S) /\ Cardinality(S) \in Nat /\ S \subseteq Nat /\ \A y \in S : y \in Int
<1>1. Ids \subseteq Nat /\ IsFiniteSet(Ids)
  BY BudgetAssumption, FS_Interval DEF Ids
<1>2. S \subseteq Nat /\ \A y \in S : y \in Int
  BY <1>1
<1>3. QED
  BY <1>1, <1>2, FS_Subset, FS_CardinalityType

\* A set of ids has a smallest and a largest one.
LEMMA SmallestId ==
  ASSUME NEW S, S \subseteq Ids, S # {}
  PROVE  Min(S) \in S /\ \A x \in S : Min(S) <= x
<1> DEFINE Less == OpToRel(<, Nat)
<1>1. IsWellFoundedOn(Less, Nat)
  BY NatLessThanWellFounded
<1>2. S \in SUBSET Nat
  BY IdsAreFinite
<1>3. \A x \in Nat, y \in Nat : <<x, y>> \notin Less => y <= x
  BY DEF OpToRel
<1> HIDE DEF Less
<1>4. PICK d \in S : \A x \in S : <<x, d>> \notin Less
  BY <1>1, <1>2, WFMin
<1>5. \A x \in S : d <= x
  BY <1>2, <1>3, <1>4
<1>6. QED
  BY <1>4, <1>5 DEF Min

LEMMA LargestId ==
  ASSUME NEW S, S \subseteq Ids, S # {}
  PROVE  Max(S) \in S /\ \A x \in S : Max(S) >= x
<1> DEFINE Less == OpToRel(<, Nat)
           Gaps == {MaxId - x : x \in S}
<1>1. IsWellFoundedOn(Less, Nat)
  BY NatLessThanWellFounded
<1>2. Gaps \in SUBSET Nat /\ Gaps # {}
  BY BudgetAssumption DEF Ids
<1>3. \A x \in Nat, y \in Nat : <<x, y>> \notin Less => y <= x
  BY DEF OpToRel
<1> HIDE DEF Less, Gaps
<1>4. PICK d \in Gaps : \A x \in Gaps : <<x, d>> \notin Less
  BY <1>1, <1>2, WFMin
<1>5. \A x \in Gaps : d <= x
  BY <1>2, <1>3, <1>4
<1>6. PICK m \in S : d = MaxId - m
  BY <1>4 DEF Gaps
<1>7. \A x \in S : m >= x
  <2> SUFFICES ASSUME NEW x \in S
               PROVE  m >= x
    OBVIOUS
  <2>1. MaxId - x \in Gaps
    BY DEF Gaps
  <2>2. QED
    BY <1>5, <1>6, <2>1, BudgetAssumption DEF Ids
<1>8. QED
  BY <1>6, <1>7 DEF Max

\* An id with Keep newer ones beside it is not one of the newest.
LEMMA NotNewest ==
  ASSUME NEW M, M \subseteq Ids, NEW above, NEW x, above \subseteq M,
         \A j \in above : j > x, Cardinality(above) >= Keep
  PROVE  x \notin Newest(M, Keep)
<1> DEFINE all == {j \in M : j > x}
<1>1. above \subseteq all
  OBVIOUS
<1>2. IsFiniteSet(all) /\ Cardinality(all) \in Nat
  BY IdsAreFinite
<1>3. Cardinality(above) <= Cardinality(all) /\ Cardinality(above) \in Nat
  BY <1>1, <1>2, FS_Subset, FS_CardinalityType
<1>4. ~(Cardinality(all) < Keep)
  BY <1>2, <1>3, KeepAssumption
<1>5. QED
  BY <1>4 DEF Newest

LEMMA NotOldest ==
  ASSUME NEW M, M \subseteq Ids, NEW S, S \subseteq M, S # {}, NEW x \in Int, x > Min(S)
  PROVE  x \notin Oldest(M)
<1>1. Min(S) \in M /\ Min(S) \in Nat
  BY SmallestId, IdsAreFinite
<1>2. QED
  BY <1>1 DEF Oldest

\* Neither range takes the oldest or one of the newest of the rows there are by
\* then, however old the set of rows it was computed from.
LEMMA PruneSpares ==
  ASSUME NEW M, M \subseteq Ids, NEW S, S \subseteq M, PruneVictims(S) # {},
         NEW x \in M, x > Min(S), x <= Max(PruneVictims(S))
  PROVE  x \notin Oldest(M) \cup Newest(M, Keep)
<1> DEFINE v == Max(PruneVictims(S))
<1>1. PruneVictims(S) \subseteq Middle(S) /\ Middle(S) \subseteq S
  BY DEF PruneVictims, Middle
<1>2. v \in Middle(S) /\ v \in Ids
  BY <1>1, LargestId
<1>3. v \in S /\ v \notin Newest(S, Keep)
  BY <1>1, <1>2 DEF Middle
<1>4. ~(Cardinality({j \in S : j > v}) < Keep)
  BY <1>3 DEF Newest
<1>5. x \in Int /\ v \in Int /\ \A j \in S : j \in Int
  BY <1>2, IdsAreFinite
<1>6. x \notin Newest(M, Keep)
  <2> DEFINE above == {j \in S : j > v}
  <2>1. Cardinality(above) \in Nat
    BY IdsAreFinite
  <2>2. Cardinality(above) >= Keep
    BY <1>4, <2>1, KeepAssumption
  <2>3. above \subseteq M /\ \A j \in above : j > x
    <3>1. x <= v
      OBVIOUS
    <3> HIDE DEF v
    <3> SUFFICES ASSUME NEW j \in above
                 PROVE  j \in M /\ j > x
      OBVIOUS
    <3>2. j \in S /\ j > v /\ j \in Int
      BY <1>5
    <3>3. QED
      BY <1>5, <3>1, <3>2
  <2> HIDE DEF above
  <2>4. QED
    BY <2>2, <2>3, NotNewest
<1>7. x \notin Oldest(M)
  BY <1>3, <1>5, NotOldest
<1>8. QED
  BY <1>6, <1>7

LEMMA CompactSpares ==
  ASSUME NEW M, M \subseteq Ids, NEW S, S \subseteq M, CompactVictims(S) # {},
         NEW x \in M, x > Min(S), x <= Min(Newest(S, Keep)) - 1
  PROVE  x \notin Oldest(M) \cup Newest(M, Keep)
<1> DEFINE m == Min(Newest(S, Keep))
           older == {i \in S : i <= x}
           a == Max(older)
<1>1. S # {} /\ S \subseteq Ids /\ x \in Int /\ \A y \in S : y \in Int
  BY IdsAreFinite DEF CompactVictims, Middle
<1>2. Max(S) \in Newest(S, Keep)
  <2>1. Max(S) \in S /\ \A y \in S : Max(S) >= y
    BY <1>1, LargestId
  <2>2. {j \in S : j > Max(S)} = {}
    <3> SUFFICES ASSUME NEW j \in S
                 PROVE  ~(j > Max(S))
      OBVIOUS
    <3>1. j \in Int /\ Max(S) \in Int /\ Max(S) >= j
      BY <1>1, <2>1
    <3>2. QED
      BY <3>1
  <2>3. QED
    BY <2>1, <2>2, FS_EmptySet, KeepAssumption DEF Newest
<1>3. m \in Newest(S, Keep) /\ \A y \in Newest(S, Keep) : m <= y
  <2>1. Newest(S, Keep) \subseteq Ids /\ Newest(S, Keep) # {}
    BY <1>1, <1>2 DEF Newest
  <2>2. QED
    BY <2>1, SmallestId
<1>4. m \in Int
  BY <1>1, <1>3 DEF Newest
<1>5. older # {} /\ older \subseteq Ids
  <2>1. Min(S) \in S /\ Min(S) \in Int
    BY <1>1, SmallestId
  <2>2. Min(S) \in older
    BY <1>1, <2>1
  <2>3. QED
    BY <1>1, <2>2
<1>6. a \in older /\ \A y \in older : a >= y
  BY <1>5, LargestId
<1>7. a \in S /\ a <= x /\ a \in Int /\ \A y \in S : y <= x => y <= a
  BY <1>1, <1>6
<1> HIDE DEF m, older, a
<1>8. a \notin Newest(S, Keep)
  BY <1>1, <1>3, <1>4, <1>7 DEF m
<1>9. ~(Cardinality({j \in S : j > a}) < Keep)
  BY <1>7, <1>8 DEF Newest
<1>10. {j \in S : j > a} = {j \in S : j > x}
  <2> SUFFICES ASSUME NEW j \in S
               PROVE  j > a <=> j > x
    OBVIOUS
  <2>1. j \in Int /\ (j <= x => j <= a)
    BY <1>1, <1>7
  <2>2. QED
    BY <1>1, <1>7, <2>1
<1>11. x \notin Newest(M, Keep)
  <2> DEFINE above == {j \in S : j > x}
  <2>1. Cardinality(above) \in Nat
    BY <1>1, IdsAreFinite
  <2>2. ~(Cardinality(above) < Keep)
    BY <1>9, <1>10
  <2>3. above \subseteq M /\ \A j \in above : j > x
    OBVIOUS
  <2> HIDE DEF above
  <2>4. Cardinality(above) >= Keep
    BY <2>1, <2>2, KeepAssumption
  <2>5. QED
    BY <2>3, <2>4, NotNewest
<1>12. x \notin Oldest(M)
  BY <1>1, NotOldest
<1>13. QED
  BY <1>11, <1>12

\* More ids leave fewer of the old ones oldest or newest.
LEMMA OneMoreId ==
  ASSUME NEW M, M \subseteq Ids, NEW i \in Ids
  PROVE  Oldest(M \cup {i}) \cup Newest(M \cup {i}, Keep) \subseteq
           Oldest(M) \cup Newest(M, Keep) \cup {i}
<1> SUFFICES ASSUME NEW x \in M, x # i, x \in Oldest(M \cup {i}) \cup Newest(M \cup {i}, Keep)
             PROVE  x \in Oldest(M) \cup Newest(M, Keep)
  BY DEF Oldest, Newest
<1>1. CASE x \in Oldest(M \cup {i})
  BY <1>1 DEF Oldest
<1>2. CASE x \in Newest(M \cup {i}, Keep)
  <2> DEFINE few == {j \in M : j > x}
             more == {j \in M \cup {i} : j > x}
  <2>1. few \subseteq more /\ more \subseteq Ids
    OBVIOUS
  <2>2. Cardinality(few) <= Cardinality(more) /\ Cardinality(few) \in Nat
        /\ Cardinality(more) \in Nat
    <3>1. IsFiniteSet(more) /\ Cardinality(more) \in Nat
      BY <2>1, IdsAreFinite
    <3>2. few \subseteq Ids
      OBVIOUS
    <3> HIDE DEF few, more
    <3>3. QED
      BY <2>1, <3>1, <3>2, FS_Subset, IdsAreFinite
  <2>3. Cardinality(more) < Keep
    BY <1>2 DEF Newest
  <2>4. Cardinality(few) < Keep
    BY <2>2, <2>3, KeepAssumption
  <2>5. QED
    BY <2>4 DEF Newest
<1>3. QED
  BY <1>1, <1>2

----------------------------------------------------------------------------
(* The database: types *)

Runtimes ==
  [open : BOOLEAN, thread : Threads \cup {NoThread},
   step : {"idle", "id", "put", "write", "node", "prune", "delete"},
   k : 0..3, id : 0..MaxId, seen : SUBSET Ids]
Commands ==
  [step : {"none", "deleteJournal", "compactRead", "compactDelete"},
   thread : Threads \cup {NoThread}, todo : SUBSET Threads, seen : SUBSET Ids]
Listings ==
  [step : {"idle", "count"}, thread : Threads \cup {NoThread}, row : 0..MaxId]

\* What a runtime works on at each step of a turn.
Fit(r) ==
  /\ r.step # "idle" => r.thread \in Threads
  /\ r.step \in {"put", "write", "node"} => r.id \in Ids
  /\ r.step \in {"write", "node"} => r.k \in 1..2
  /\ IF r.step = "delete" THEN PruneVictims(r.seen) # {} ELSE r.seen = {}

TablesTyped ==
  /\ clock \in 0..MaxId /\ rows \in [Threads -> SUBSET Ids] /\ writes \in [Threads -> SUBSET Ids]
  /\ made \in [Threads -> SUBSET Ids] /\ torn \in SUBSET Threads /\ journal \in SUBSET Threads
ProcsTyped == proc \in [Procs -> Runtimes] /\ \A p \in Procs : Fit(proc[p])
CommandTyped ==
  /\ cmd \in Commands
  /\ cmd.step = "compactDelete" => cmd.thread \in Threads
ListTyped ==
  /\ list \in Listings /\ cache \in [Threads -> (0..MaxId) \X (0..MaxId)]
  /\ list.step = "count" => list.thread \in Threads

StoreTyped == TablesTyped /\ ProcsTyped /\ CommandTyped /\ ListTyped

LEMMA LatestTyped ==
  ASSUME TablesTyped, NEW t \in Threads
  PROVE  /\ LatestId(t) \in 0..MaxId
         /\ rows[t] # {} => LatestId(t) \in rows[t] /\ \A i \in rows[t] : i <= LatestId(t)
<1>1. rows[t] \subseteq Ids
  BY DEF TablesTyped
<1>2. CASE rows[t] = {}
  BY <1>2, BudgetAssumption DEF LatestId
<1>3. CASE rows[t] # {}
  <2>1. LatestId(t) = Max(rows[t])
    BY <1>3 DEF LatestId
  <2>2. LatestId(t) \in rows[t] /\ \A i \in rows[t] : LatestId(t) >= i
    BY <1>1, <1>3, <2>1, LargestId
  <2>3. LatestId(t) \in 0..MaxId /\ LatestId(t) \in Int /\ \A i \in rows[t] : i \in Int
    BY <1>1, <2>2 DEF Ids
  <2>4. QED
    BY <2>2, <2>3
<1>4. QED
  BY <1>2, <1>3

LEMMA StoreInit == Init => StoreTyped
<1> SUFFICES ASSUME Init
             PROVE  StoreTyped
  OBVIOUS
<1>1. TablesTyped
  BY BudgetAssumption DEF Init, TablesTyped
<1>2. Closed \in Runtimes /\ Fit(Closed)
  BY BudgetAssumption DEF Closed, Runtimes, Fit
<1>3. ProcsTyped
  BY <1>2 DEF Init, ProcsTyped
<1>4. CommandTyped /\ ListTyped
  BY BudgetAssumption DEF Init, CommandTyped, ListTyped, NoCmd, NoList, Commands, Listings
<1>5. QED
  BY <1>1, <1>3, <1>4 DEF StoreTyped

\* A step of one runtime.
Only(p) == \A q \in Procs : q # p => proc'[q] = proc[q]

LEMMA Opened ==
  ASSUME StoreTyped, NEW p \in Procs,
         \/ OpenRuntime(p) \/ AbandonTurn(p) \/ CloseRuntime(p)
  PROVE  /\ proc' \in [Procs -> Runtimes] /\ Only(p)
         /\ proc'[p].step = "idle" /\ proc'[p].thread = NoThread /\ proc'[p].id = 0
         /\ proc'[p].seen = {}
<1>1. /\ Idle(p) \in Runtimes /\ Closed \in Runtimes
      /\ Idle(p).step = "idle" /\ Idle(p).thread = NoThread /\ Idle(p).id = 0 /\ Idle(p).seen = {}
      /\ Closed.step = "idle" /\ Closed.thread = NoThread /\ Closed.id = 0 /\ Closed.seen = {}
  BY BudgetAssumption DEF Idle, Closed, Runtimes
<1>2. PICK r \in {Idle(p), Closed} : proc' = [proc EXCEPT ![p] = r]
  BY DEF OpenRuntime, AbandonTurn, CloseRuntime
<1>3. r \in Runtimes /\ r.step = "idle" /\ r.thread = NoThread /\ r.id = 0 /\ r.seen = {}
  BY <1>1, <1>2
<1>4. QED
  BY <1>2, <1>3 DEF StoreTyped, ProcsTyped, Only

LEMMA TurnStarted ==
  ASSUME StoreTyped, NEW p \in Procs, NEW t \in Threads, StartTurn(p, t)
  PROVE  /\ proc' \in [Procs -> Runtimes] /\ Only(p)
         /\ proc'[p].step = "id" /\ proc'[p].thread = t /\ proc'[p].id = proc[p].id
         /\ proc'[p].seen = proc[p].seen
<1>1. proc[p] \in Runtimes /\ proc \in [Procs -> Runtimes]
  BY DEF StoreTyped, ProcsTyped
<1> DEFINE r == [proc[p] EXCEPT !.thread = t, !.step = "id", !.k = 1]
<1>2. proc' = [proc EXCEPT ![p] = r]
  BY <1>1 DEF StartTurn
<1>3. /\ r.step = "id" /\ r.thread = t /\ r.id = proc[p].id /\ r.seen = proc[p].seen
  BY <1>1 DEF Runtimes
<1>4. r \in Runtimes
  <2>1. 1 \in 0..3 /\ t \in Threads \cup {NoThread}
    OBVIOUS
  <2> DEFINE r1 == [proc[p] EXCEPT !.thread = t]
             r2 == [r1 EXCEPT !.step = "id"]
  <2>2. r1 \in Runtimes
    BY <1>1, <2>1 DEF Runtimes
  <2> HIDE DEF r1
  <2>3. r2 \in Runtimes
    BY <2>2 DEF Runtimes
  <2> HIDE DEF r2
  <2>4. [r2 EXCEPT !.k = 1] \in Runtimes
    BY <2>1, <2>3 DEF Runtimes
  <2>5. QED
    BY <2>4 DEF r1, r2
<1> HIDE DEF r
<1>5. QED
  BY <1>1, <1>2, <1>3, <1>4 DEF Only

LEMMA IdDrawn ==
  ASSUME StoreTyped, NEW p \in Procs, DrawId(p)
  PROVE  /\ proc' \in [Procs -> Runtimes] /\ Only(p) /\ clock + 1 \in Ids
         /\ proc'[p].step = "put" /\ proc'[p].thread = proc[p].thread
         /\ proc'[p].id = clock + 1 /\ proc'[p].seen = proc[p].seen
<1>1. proc[p] \in Runtimes /\ proc \in [Procs -> Runtimes]
  BY DEF StoreTyped, ProcsTyped
<1>2. clock + 1 \in Ids /\ clock + 1 \in 0..MaxId
  BY BudgetAssumption DEF StoreTyped, TablesTyped, DrawId, Ids
<1> DEFINE r == [proc[p] EXCEPT !.id = clock + 1, !.step = "put"]
<1>3. proc' = [proc EXCEPT ![p] = r]
  BY <1>1 DEF DrawId
<1>4. /\ r \in Runtimes /\ r.step = "put" /\ r.thread = proc[p].thread
      /\ r.id = clock + 1 /\ r.seen = proc[p].seen
  BY <1>1, <1>2 DEF Runtimes
<1> HIDE DEF r
<1>5. QED
  BY <1>1, <1>2, <1>3, <1>4 DEF Only

LEMMA CheckpointPut ==
  ASSUME StoreTyped, NEW p \in Procs, PutCheckpoint(p)
  PROVE  /\ proc' \in [Procs -> Runtimes] /\ Only(p)
         /\ proc'[p].step \in {"write", "node", "prune"} /\ proc'[p].thread = proc[p].thread
         /\ proc'[p].step \in {"write", "node"} => proc'[p].k \in 1..2
         /\ proc'[p].id = proc[p].id /\ proc'[p].seen = proc[p].seen
<1>1. proc[p] \in Runtimes /\ proc \in [Procs -> Runtimes]
  BY DEF StoreTyped, ProcsTyped
<1>2. PICK s \in {"write", "node", "prune"} :
        /\ s \in {"write", "node"} => proc[p].k \in 1..2
        /\ proc' = [proc EXCEPT ![p].step = s]
  <2>1. CASE proc[p].k = 1
    BY <2>1 DEF PutCheckpoint
  <2>2. CASE proc[p].k = 2
    BY <2>2 DEF PutCheckpoint
  <2>3. CASE proc[p].k \notin {1, 2}
    BY <2>3 DEF PutCheckpoint
  <2>4. QED
    BY <2>1, <2>2, <2>3
<1> DEFINE r == [proc[p] EXCEPT !.step = s]
<1>3. proc' = [proc EXCEPT ![p] = r]
  BY <1>1, <1>2
<1>4. /\ r \in Runtimes /\ r.step = s /\ r.thread = proc[p].thread
      /\ r.id = proc[p].id /\ r.seen = proc[p].seen /\ r.k = proc[p].k
  BY <1>1 DEF Runtimes
<1> HIDE DEF r
<1>5. QED
  BY <1>1, <1>2, <1>3, <1>4 DEF Only

LEMMA WritesPut ==
  ASSUME StoreTyped, NEW p \in Procs, PutWrites(p)
  PROVE  /\ proc' \in [Procs -> Runtimes] /\ Only(p)
         /\ proc'[p].step = "id" /\ proc'[p].thread = proc[p].thread
         /\ proc'[p].id = 0 /\ proc'[p].seen = proc[p].seen
<1>1. proc[p] \in Runtimes /\ proc \in [Procs -> Runtimes] /\ proc[p].k + 1 \in 0..3
  BY DEF StoreTyped, ProcsTyped, Fit, PutWrites
<1> DEFINE r == [proc[p] EXCEPT !.step = "id", !.k = proc[p].k + 1, !.id = 0]
<1>2. proc' = [proc EXCEPT ![p] = r]
  BY <1>1 DEF PutWrites
<1>3. /\ r.step = "id" /\ r.thread = proc[p].thread /\ r.id = 0 /\ r.seen = proc[p].seen
  BY <1>1 DEF Runtimes
<1>4. r \in Runtimes
  <2>1. 0 \in 0..MaxId
    BY BudgetAssumption
  <2>2. QED
    BY <1>1, <2>1 DEF Runtimes
<1> HIDE DEF r
<1>5. QED
  BY <1>1, <1>2, <1>3, <1>4 DEF Only

LEMMA NodeEnded ==
  ASSUME StoreTyped, NEW p \in Procs, NodeEnds(p)
  PROVE  /\ proc' \in [Procs -> Runtimes] /\ Only(p)
         /\ proc'[p].step = "write" /\ proc'[p].thread = proc[p].thread
         /\ proc'[p].id = proc[p].id /\ proc'[p].seen = proc[p].seen
         /\ proc'[p].k = proc[p].k
<1>1. proc[p] \in Runtimes /\ proc \in [Procs -> Runtimes]
  BY DEF StoreTyped, ProcsTyped
<1> DEFINE r == [proc[p] EXCEPT !.step = "write"]
<1>2. proc' = [proc EXCEPT ![p] = r]
  BY <1>1 DEF NodeEnds
<1>3. /\ r \in Runtimes /\ r.step = "write" /\ r.thread = proc[p].thread
      /\ r.id = proc[p].id /\ r.seen = proc[p].seen /\ r.k = proc[p].k
  BY <1>1 DEF Runtimes
<1> HIDE DEF r
<1>4. QED
  BY <1>1, <1>2, <1>3 DEF Only

LEMMA Pruned ==
  ASSUME StoreTyped, NEW p \in Procs, PruneReads(p) \/ PruneCommits(p)
  PROVE  /\ proc' \in [Procs -> Runtimes] /\ Only(p)
         /\ \/ /\ proc'[p].step = "idle" /\ proc'[p].thread = NoThread
               /\ proc'[p].id = 0 /\ proc'[p].seen = {}
            \/ /\ PruneReads(p) /\ proc'[p].step = "delete"
               /\ proc'[p].thread = proc[p].thread /\ proc'[p].id = proc[p].id
               /\ proc'[p].seen = rows[proc[p].thread] /\ PruneVictims(proc'[p].seen) # {}
<1>1. proc[p] \in Runtimes /\ proc \in [Procs -> Runtimes]
  BY DEF StoreTyped, ProcsTyped
<1>2. Idle(p) \in Runtimes /\ Idle(p).step = "idle" /\ Idle(p).thread = NoThread
      /\ Idle(p).id = 0 /\ Idle(p).seen = {}
  BY BudgetAssumption DEF Idle, Runtimes
<1>3. CASE proc' = [proc EXCEPT ![p] = Idle(p)]
  BY <1>1, <1>2, <1>3 DEF Only
<1>4. CASE proc' # [proc EXCEPT ![p] = Idle(p)]
  <2> DEFINE seen == rows[proc[p].thread]
             r == [proc[p] EXCEPT !.step = "delete", !.seen = seen]
  <2>1. PruneReads(p) /\ PruneVictims(seen) # {} /\ proc' = [proc EXCEPT ![p] = r]
    BY <1>1, <1>4 DEF PruneReads, PruneCommits
  <2>2. proc[p].thread \in Threads /\ seen \in SUBSET Ids
    BY <2>1 DEF PruneReads, StoreTyped, ProcsTyped, Fit, TablesTyped
  <2> HIDE DEF seen
  <2>3. /\ r \in Runtimes /\ r.step = "delete" /\ r.thread = proc[p].thread
        /\ r.id = proc[p].id /\ r.seen = seen
    BY <1>1, <2>2 DEF Runtimes
  <2> HIDE DEF r
  <2>4. QED
    BY <1>1, <2>1, <2>3 DEF Only, seen
<1>5. QED
  BY <1>3, <1>4

LEMMA TablesStep == StoreTyped /\ [Next]_vars => TablesTyped'
<1> SUFFICES ASSUME StoreTyped, [Next]_vars
             PROVE  TablesTyped'
  OBVIOUS
<1>0. TablesTyped
  BY DEF StoreTyped
<1>1. ASSUME NEW p \in Procs, DrawId(p)
      PROVE  TablesTyped'
  <2>1. clock + 1 \in 0..MaxId
    BY <1>0, <1>1, BudgetAssumption DEF DrawId, TablesTyped
  <2>2. QED
    BY <1>0, <1>1, <2>1 DEF DrawId, TablesTyped, tables
<1>2. ASSUME NEW p \in Procs, PutCheckpoint(p) \/ PutWrites(p)
      PROVE  TablesTyped'
  <2>1. proc[p].id \in Ids
    BY <1>2 DEF PutCheckpoint, PutWrites, StoreTyped, ProcsTyped, Fit
  <2>2. CASE PutCheckpoint(p)
    BY <1>0, <2>1, <2>2 DEF PutCheckpoint, TablesTyped
  <2>3. CASE PutWrites(p)
    BY <1>0, <2>1, <2>3 DEF PutWrites, TablesTyped
  <2>4. QED
    BY <1>2, <2>2, <2>3
<1>3. ASSUME NEW p \in Procs, PruneCommits(p)
      PROVE  TablesTyped'
  <2>1. \A S \in SUBSET Ids : \A seen : PruneDelete(S, seen) \in SUBSET Ids
    BY DEF PruneDelete
  <2> DEFINE t == proc[p].thread
  <2>2. t \in Threads
    BY <1>3 DEF PruneCommits, StoreTyped, ProcsTyped, Fit
  <2>3. /\ PruneDelete(rows[t], proc[p].seen) \in SUBSET Ids
        /\ PruneDelete(writes[t], proc[p].seen) \in SUBSET Ids
    BY <1>0, <2>1, <2>2 DEF TablesTyped
  <2>4. /\ rows' = [rows EXCEPT ![t] = PruneDelete(rows[t], proc[p].seen)]
        /\ writes' = [writes EXCEPT ![t] = PruneDelete(writes[t], proc[p].seen)]
        /\ UNCHANGED <<clock, journal, made, torn>>
    BY <1>0, <1>3 DEF PruneCommits, TablesTyped
  <2> HIDE DEF t
  <2>5. QED
    BY <1>0, <2>3, <2>4 DEF TablesTyped
<1>4. ASSUME CompactCommits
      PROVE  TablesTyped'
  <2>1. \A S \in SUBSET Ids : \A seen : CompactDelete(S, seen) \in SUBSET Ids
    BY DEF CompactDelete
  <2> DEFINE t == cmd.thread
  <2>2. t \in Threads /\ UNCHANGED <<clock, journal, made, torn>>
    BY <1>4 DEF CompactCommits, StoreTyped, CommandTyped
  <2>3. /\ CompactDelete(rows[t], cmd.seen) \in SUBSET Ids
        /\ CompactDelete(writes[t], cmd.seen) \in SUBSET Ids
    BY <1>0, <2>1, <2>2 DEF TablesTyped
  <2>4. \/ UNCHANGED <<rows, writes>>
        \/ /\ rows' = [rows EXCEPT ![t] = CompactDelete(rows[t], cmd.seen)]
           /\ writes' = [writes EXCEPT ![t] = CompactDelete(writes[t], cmd.seen)]
    BY <1>0, <1>4 DEF CompactCommits, TablesTyped
  <2> HIDE DEF t
  <2>5. QED
    BY <1>0, <2>2, <2>3, <2>4 DEF TablesTyped
<1>5. ASSUME NEW t \in Threads, DeleteRows(t)
      PROVE  TablesTyped'
  <2>1. torn' \in SUBSET Threads
    BY <1>0, <1>5 DEF DeleteRows, TablesTyped
  <2>2. QED
    BY <1>0, <1>5, <2>1 DEF DeleteRows, TablesTyped
<1>6. ASSUME NEW p \in Procs, NodeSaves(p) \/ NodeEnds(p)
      PROVE  TablesTyped'
  <2>1. proc[p].thread \in Threads
    BY <1>6 DEF NodeSaves, NodeEnds, StoreTyped, ProcsTyped, Fit
  <2>2. QED
    BY <1>0, <1>6, <2>1 DEF NodeSaves, NodeEnds, TablesTyped
<1>7. CASE UNCHANGED <<clock, rows, writes, journal, made, torn>>
  BY <1>0, <1>7 DEF TablesTyped
<1>8. ASSUME DeleteJournal
      PROVE  TablesTyped'
  BY <1>0, <1>8 DEF DeleteJournal, TablesTyped
<1>9. QED
  BY <1>1, <1>2, <1>3, <1>4, <1>5, <1>6, <1>7, <1>8 DEF Next, vars, tables, OpenRuntime,
     PruneReads, AbandonTurn, CloseRuntime, StartTurn, CompactReads, ListRows, CompactStarts,
     CommandEnds, ListCounts

LEMMA ProcsStep == StoreTyped /\ [Next]_vars => ProcsTyped'
<1> SUFFICES ASSUME StoreTyped, [Next]_vars
             PROVE  ProcsTyped'
  OBVIOUS
<1>0. ProcsTyped
  BY DEF StoreTyped
<1>1. ASSUME NEW p \in Procs,
             \/ OpenRuntime(p) \/ DrawId(p) \/ PutCheckpoint(p) \/ PutWrites(p)
             \/ NodeEnds(p) \/ PruneReads(p) \/ PruneCommits(p)
             \/ AbandonTurn(p) \/ CloseRuntime(p)
             \/ \E t \in Threads : StartTurn(p, t)
      PROVE  ProcsTyped'
  <2> SUFFICES proc' \in [Procs -> Runtimes] /\ Only(p) /\ Fit(proc'[p])
    BY <1>0 DEF ProcsTyped, Only
  <2>1. CASE OpenRuntime(p) \/ AbandonTurn(p) \/ CloseRuntime(p)
    BY <2>1, Opened DEF Fit
  <2>2. CASE DrawId(p)
    BY <1>0, <2>2, IdDrawn DEF Fit, ProcsTyped, DrawId
  <2>3. CASE PutCheckpoint(p)
    BY <1>0, <2>3, CheckpointPut DEF Fit, ProcsTyped, PutCheckpoint
  <2>4. CASE PutWrites(p)
    BY <1>0, <2>4, WritesPut DEF Fit, ProcsTyped, PutWrites
  <2>5. CASE NodeEnds(p)
    BY <1>0, <2>5, NodeEnded DEF Fit, ProcsTyped, NodeEnds
  <2>6. CASE PruneReads(p) \/ PruneCommits(p)
    BY <1>0, <2>6, Pruned DEF Fit, ProcsTyped, PruneReads
  <2>7. ASSUME NEW t \in Threads, StartTurn(p, t)
        PROVE  proc' \in [Procs -> Runtimes] /\ Only(p) /\ Fit(proc'[p])
    <3>1. /\ proc' \in [Procs -> Runtimes] /\ Only(p)
          /\ proc'[p].step = "id" /\ proc'[p].seen = proc[p].seen
      BY <2>7, TurnStarted
    <3>2. Fit(proc[p]) /\ proc[p].step = "idle"
      BY <1>0, <2>7 DEF ProcsTyped, StartTurn
    <3>3. proc'[p].thread = t
      BY <2>7, TurnStarted
    <3>4. Fit(proc'[p])
      BY <3>1, <3>2, <3>3 DEF Fit
    <3>5. QED
      BY <3>1, <3>4
  <2>8. QED
    BY <1>1, <2>1, <2>2, <2>3, <2>4, <2>5, <2>6, <2>7
<1>2. CASE UNCHANGED proc
  BY <1>0, <1>2 DEF ProcsTyped
<1>3. QED
  BY <1>1, <1>2 DEF Next, vars, NodeSaves, DeleteRows, CompactReads, ListRows, DeleteJournal,
     CompactStarts, CompactCommits, CommandEnds, ListCounts

LEMMA NoCmdTyped == NoCmd \in Commands /\ NoCmd.step = "none" /\ NoCmd.thread = NoThread /\ NoCmd.seen = {}
BY DEF NoCmd, Commands

LEMMA CommandStep == StoreTyped /\ [Next]_vars => CommandTyped'
<1> SUFFICES ASSUME StoreTyped, [Next]_vars
             PROVE  CommandTyped'
  OBVIOUS
<1>0. CommandTyped /\ cmd \in Commands /\ TablesTyped
  BY DEF StoreTyped, CommandTyped
<1>1. ASSUME NEW t \in Threads, DeleteRows(t)
      PROVE  CommandTyped'
  BY <1>1, NoCmdTyped DEF DeleteRows, CommandTyped, Commands
<1>2. CASE CompactStarts
  BY <1>2, NoCmdTyped DEF CompactStarts, CommandTyped, Commands
<1>3. ASSUME NEW t \in Threads, CompactReads(t)
      PROVE  CommandTyped'
  <2>1. rows[t] \in SUBSET Ids
    BY <1>0 DEF TablesTyped
  <2>2. QED
    BY <1>0, <1>3, <2>1 DEF CompactReads, CommandTyped, Commands
<1>4. CASE CompactCommits
  <2> DEFINE left == cmd.todo \ {cmd.thread}
             c == [cmd EXCEPT !.todo = left, !.thread = NoThread, !.seen = {}, !.step = "compactRead"]
  <2>1. left \in SUBSET Threads /\ {} \in SUBSET Ids
    BY <1>0 DEF Commands
  <2>2. cmd' = c
    BY <1>0, <1>4 DEF CompactCommits, Commands
  <2> HIDE DEF left
  <2>3. c \in Commands
    BY <1>0, <2>1 DEF Commands
  <2>4. c.step = "compactRead"
    BY <1>0 DEF Commands
  <2>5. QED
    BY <2>2, <2>3, <2>4 DEF CommandTyped
<1>5. CASE DeleteJournal \/ CommandEnds
  BY <1>5, NoCmdTyped DEF DeleteJournal, CommandEnds, CommandTyped
<1>6. CASE UNCHANGED cmd
  BY <1>0, <1>6 DEF CommandTyped
<1>7. QED
  BY <1>1, <1>2, <1>3, <1>4, <1>5, <1>6 DEF Next, vars, OpenRuntime, DrawId, PutCheckpoint,
     PutWrites, NodeSaves, NodeEnds, PruneReads, PruneCommits, AbandonTurn, CloseRuntime,
     StartTurn, ListRows, ListCounts

LEMMA ListStep == StoreTyped /\ [Next]_vars => ListTyped'
<1> SUFFICES ASSUME StoreTyped, [Next]_vars
             PROVE  ListTyped'
  OBVIOUS
<1>0. ListTyped /\ TablesTyped
  BY DEF StoreTyped
<1>1. ASSUME NEW t \in Threads, ListRows(t)
      PROVE  ListTyped'
  BY <1>0, <1>1, LatestTyped DEF ListRows, ListTyped, Listings
<1>2. CASE ListCounts
  <2> DEFINE t == list.thread
             count == IF cache[t][1] = list.row THEN cache[t][2] ELSE LatestId(t)
  <2>1. t \in Threads /\ list.row \in 0..MaxId
    BY <1>0, <1>2 DEF ListTyped, Listings, ListCounts
  <2>2. cache[t] \in (0..MaxId) \X (0..MaxId)
    BY <1>0, <2>1 DEF ListTyped
  <2>3. count \in 0..MaxId
    BY <1>0, <2>1, <2>2, LatestTyped
  <2>4. cache' = [cache EXCEPT ![t] = <<list.row, count>>] /\ list' = NoList
    BY <1>2 DEF ListCounts
  <2> HIDE DEF t, count
  <2>5. NoList \in Listings /\ NoList.step = "idle"
    BY BudgetAssumption DEF NoList, Listings
  <2>6. QED
    BY <1>0, <2>1, <2>3, <2>4, <2>5 DEF ListTyped
<1>3. CASE UNCHANGED listing
  BY <1>0, <1>3 DEF listing, ListTyped
<1>4. QED
  BY <1>1, <1>2, <1>3 DEF Next, vars, listing, OpenRuntime, DrawId, PutCheckpoint,
     PutWrites, NodeSaves, NodeEnds, PruneReads, PruneCommits, AbandonTurn, CloseRuntime,
     StartTurn, DeleteRows, CompactReads, DeleteJournal, CompactStarts, CompactCommits, CommandEnds

LEMMA StoreTypes == Spec => []StoreTyped
<1>1. StoreTyped /\ [Next]_vars => StoreTyped'
  BY TablesStep, ProcsStep, CommandStep, ListStep DEF StoreTyped
<1>2. QED
  BY <1>1, StoreInit, PTL DEF Spec

\* The tables, the runtimes, the command and the list keep their types.
THEOREM StoreTypeCorrect == Spec => []TypeOK
<1>1. StoreTyped => TypeOK
  BY DEF StoreTyped, TablesTyped, ProcsTyped, CommandTyped, ListTyped, TypeOK, Runtimes,
     Commands, Listings
<1>2. QED
  BY <1>1, StoreTypes, PTL

----------------------------------------------------------------------------
(* The database: what a thread keeps *)

Needed(M) == Oldest(M) \cup Newest(M, Keep)

\* What a process has seen of a thread, or is about to write to it, was committed,
\* and what reopening and listing the thread need is there.
Lasting(t) ==
  /\ rows[t] \subseteq made[t] /\ writes[t] \subseteq made[t]
  /\ Needed(made[t]) \subseteq rows[t]
  /\ cmd.thread = t => cmd.seen \subseteq made[t]
  /\ \A p \in Procs : proc[p].thread = t =>
        /\ proc[p].seen \subseteq made[t]
        /\ proc[p].step \in {"write", "node"} => proc[p].id \in made[t]

Retention == \A t \in Threads \ torn : Lasting(t)

\* A range delete is of rows that are not needed.
LEMMA PruneKeeps ==
  ASSUME NEW M, M \subseteq Ids, NEW S, S \subseteq M, PruneVictims(S) # {}, NEW T, T \subseteq M
  PROVE  /\ PruneDelete(T, S) \subseteq T
         /\ T \cap Needed(M) \subseteq PruneDelete(T, S)
<1> SUFFICES ASSUME NEW x \in T, x \in Needed(M)
             PROVE  x \in PruneDelete(T, S)
  BY DEF PruneDelete
<1>1. ~(x > Min(S) /\ x <= Max(PruneVictims(S)))
  BY PruneSpares DEF Needed
<1>2. QED
  BY <1>1 DEF PruneDelete, InRange

LEMMA CompactKeeps ==
  ASSUME NEW M, M \subseteq Ids, NEW S, S \subseteq M, CompactVictims(S) # {}, NEW T, T \subseteq M
  PROVE  /\ CompactDelete(T, S) \subseteq T
         /\ T \cap Needed(M) \subseteq CompactDelete(T, S)
<1> SUFFICES ASSUME NEW x \in T, x \in Needed(M)
             PROVE  x \in CompactDelete(T, S)
  BY DEF CompactDelete
<1>1. ~(x > Min(S) /\ x <= Min(Newest(S, Keep)) - 1)
  BY CompactSpares DEF Needed
<1>2. QED
  BY <1>1 DEF CompactDelete, InRange

\* A step that leaves the rows of t alone and whose runtime and command stay true.
LEMMA Untouched ==
  ASSUME NEW t \in Threads, Lasting(t),
         rows'[t] = rows[t], writes'[t] = writes[t], made'[t] = made[t],
         cmd'.thread = t => cmd'.seen \subseteq made[t],
         \A p \in Procs : proc'[p].thread = t =>
            \/ proc'[p] = proc[p]
            \/ /\ proc'[p].seen \subseteq made[t]
               /\ proc'[p].step \in {"write", "node"} => proc'[p].id \in made[t]
  PROVE  Lasting(t)'
BY DEF Lasting

LEMMA RetentionInit == Init => Retention
<1> SUFFICES ASSUME Init, NEW t \in Threads
             PROVE  Lasting(t)
  BY DEF Retention
<1>1. Needed({}) = {}
  BY DEF Needed, Oldest, Newest
<1>2. QED
  BY <1>1, NoThreadAssumption DEF Init, Lasting, NoCmd, Closed

LEMMA RetentionStep == StoreTyped /\ Retention /\ [Next]_vars => Retention'
<1> SUFFICES ASSUME StoreTyped, Retention, [Next]_vars, NEW t \in Threads, t \notin torn'
             PROVE  Lasting(t)'
  BY DEF Retention
<1>0. /\ \A p \in Procs : proc[p] \in Runtimes /\ Fit(proc[p])
      /\ made[t] \subseteq Ids /\ rows[t] \subseteq Ids /\ writes[t] \subseteq Ids
      /\ rows \in [Threads -> SUBSET Ids] /\ writes \in [Threads -> SUBSET Ids]
      /\ made \in [Threads -> SUBSET Ids] /\ cmd \in Commands
  BY DEF StoreTyped, TablesTyped, ProcsTyped, CommandTyped
<1>1. ASSUME t \notin torn
      PROVE  Lasting(t)
  BY <1>1 DEF Retention
<1>2. t \notin torn
  BY DEF Next, vars, tables, OpenRuntime, DrawId, PutCheckpoint, PutWrites, NodeSaves, NodeEnds,
     PruneReads, PruneCommits, AbandonTurn, CloseRuntime, StartTurn, DeleteRows, CompactReads,
     ListRows, DeleteJournal, CompactStarts, CompactCommits, CommandEnds, ListCounts
<1>3. Lasting(t)
  BY <1>1, <1>2
<1>4. ASSUME NEW p \in Procs,
             \/ OpenRuntime(p) \/ AbandonTurn(p) \/ CloseRuntime(p) \/ DrawId(p)
             \/ NodeEnds(p) \/ PruneReads(p) \/ \E s \in Threads : StartTurn(p, s)
      PROVE  Lasting(t)'
  <2>1. UNCHANGED <<rows, writes, made, cmd>>
    BY <1>4 DEF OpenRuntime, AbandonTurn, CloseRuntime, DrawId, NodeEnds, PruneReads, StartTurn, tables
  <2>2. /\ Only(p)
        /\ proc'[p].thread = t =>
             /\ proc'[p].seen \subseteq made[t]
             /\ proc'[p].step \in {"write", "node"} => proc'[p].id \in made[t]
    <3>1. CASE OpenRuntime(p) \/ AbandonTurn(p) \/ CloseRuntime(p)
      BY <3>1, Opened, NoThreadAssumption
    <3>2. CASE DrawId(p)
      BY <1>3, <3>2, IdDrawn DEF Lasting
    <3>3. CASE NodeEnds(p)
      BY <1>3, <3>3, NodeEnded DEF Lasting, NodeEnds
    <3>4. CASE PruneReads(p)
      BY <1>3, <3>4, Pruned, NoThreadAssumption DEF Lasting
    <3>5. ASSUME NEW s \in Threads, StartTurn(p, s)
          PROVE  /\ Only(p) /\ proc'[p].seen \subseteq made[t]
                 /\ proc'[p].step = "id"
      <4>1. proc[p].seen = {}
        BY <1>0, <3>5 DEF StartTurn, Fit
      <4>2. QED
        BY <3>5, <4>1, TurnStarted
    <3>6. QED
      BY <1>4, <3>1, <3>2, <3>3, <3>4, <3>5
  <2>3. cmd.thread = t => cmd.seen \subseteq made[t]
    BY <1>3 DEF Lasting
  <2>4. QED
    BY <1>3, <2>1, <2>2, <2>3, Untouched DEF Only
<1>5. ASSUME NEW p \in Procs, PutCheckpoint(p)
      PROVE  Lasting(t)'
  <2>1. /\ Only(p) /\ proc'[p].thread = proc[p].thread /\ proc'[p].id = proc[p].id
        /\ proc'[p].seen = proc[p].seen
    BY <1>5, CheckpointPut
  <2>2. proc[p].id \in Ids /\ proc[p].thread \in Threads
    BY <1>0, <1>5 DEF PutCheckpoint, Fit
  <2>3. UNCHANGED <<writes, cmd>>
    BY <1>5 DEF PutCheckpoint
  <2>4. CASE proc[p].thread = t
    <3> DEFINE i == proc[p].id
    <3>1. rows'[t] = rows[t] \cup {i} /\ made'[t] = made[t] \cup {i}
      BY <1>0, <1>5, <2>4 DEF PutCheckpoint
    <3>2. Needed(made[t] \cup {i}) \subseteq Needed(made[t]) \cup {i}
      BY <1>0, <2>2, OneMoreId DEF Needed
    <3>3. Needed(made'[t]) \subseteq rows'[t]
      BY <1>3, <3>1, <3>2 DEF Lasting
    <3>4. \A q \in Procs : proc'[q].thread = t =>
             /\ proc'[q].seen \subseteq made'[t]
             /\ proc'[q].step \in {"write", "node"} => proc'[q].id \in made'[t]
      <4> SUFFICES ASSUME NEW q \in Procs, proc'[q].thread = t
                   PROVE  /\ proc'[q].seen \subseteq made'[t]
                          /\ proc'[q].step \in {"write", "node"} => proc'[q].id \in made'[t]
        OBVIOUS
      <4>1. CASE q = p
        BY <1>3, <2>1, <2>4, <3>1, <4>1 DEF Lasting
      <4>2. CASE q # p
        BY <1>3, <2>1, <3>1, <4>2 DEF Lasting, Only
      <4>3. QED
        BY <4>1, <4>2
    <3>5. QED
      BY <1>3, <2>3, <3>1, <3>3, <3>4 DEF Lasting
  <2>5. CASE proc[p].thread # t
    <3>1. rows'[t] = rows[t] /\ made'[t] = made[t] /\ writes'[t] = writes[t]
      BY <1>0, <1>5, <2>2, <2>5 DEF PutCheckpoint
    <3>2. cmd'.thread = t => cmd'.seen \subseteq made[t]
      BY <1>3, <2>3 DEF Lasting
    <3>3. QED
      BY <1>3, <2>1, <2>5, <3>1, <3>2, Untouched DEF Only
  <2>6. QED
    BY <2>4, <2>5
<1>6. ASSUME NEW p \in Procs, PutWrites(p)
      PROVE  Lasting(t)'
  <2>1. /\ Only(p) /\ proc'[p].thread = proc[p].thread /\ proc'[p].step = "id"
        /\ proc'[p].seen = proc[p].seen
    BY <1>6, WritesPut
  <2>2. UNCHANGED <<rows, made, cmd>> /\ proc[p].thread \in Threads
    BY <1>0, <1>6 DEF PutWrites, Fit
  <2>3. writes'[t] \subseteq made[t]
    <3>1. CASE proc[p].thread = t
      <4>1. proc[p].id \in made[t] /\ writes'[t] = writes[t] \cup {proc[p].id}
        BY <1>0, <1>3, <1>6, <3>1 DEF PutWrites, Lasting
      <4>2. QED
        BY <1>3, <4>1 DEF Lasting
    <3>2. CASE proc[p].thread # t
      BY <1>0, <1>3, <1>6, <2>2, <3>2 DEF PutWrites, Lasting
    <3>3. QED
      BY <3>1, <3>2
  <2>4. \A q \in Procs : proc'[q].thread = t =>
             /\ proc'[q].seen \subseteq made[t]
             /\ proc'[q].step \in {"write", "node"} => proc'[q].id \in made[t]
    BY <1>3, <2>1 DEF Lasting, Only
  <2>5. QED
    BY <1>3, <2>2, <2>3, <2>4 DEF Lasting
<1>7. ASSUME NEW p \in Procs, PruneCommits(p)
      PROVE  Lasting(t)'
  <2>1. Only(p) /\ proc'[p].thread = NoThread /\ NoThread # t
    BY <1>7, Pruned, NoThreadAssumption DEF PruneReads, PruneCommits
  <2>2. UNCHANGED <<made, cmd>> /\ proc[p].thread \in Threads /\ PruneVictims(proc[p].seen) # {}
    BY <1>0, <1>7 DEF PruneCommits, Fit
  <2>3. /\ rows'[t] \subseteq rows[t] /\ writes'[t] \subseteq writes[t]
        /\ Needed(made[t]) \subseteq rows'[t]
    <3>1. CASE proc[p].thread = t
      <4> DEFINE S == proc[p].seen
      <4>1. S \subseteq made[t] /\ rows[t] \subseteq made[t] /\ writes[t] \subseteq made[t]
        BY <1>3, <3>1 DEF Lasting
      <4>2. rows'[t] = PruneDelete(rows[t], S) /\ writes'[t] = PruneDelete(writes[t], S)
        BY <1>0, <1>7, <3>1 DEF PruneCommits
      <4>3. PruneVictims(S) # {}
        BY <2>2
      <4> HIDE DEF S
      <4>4. /\ PruneDelete(rows[t], S) \subseteq rows[t]
            /\ rows[t] \cap Needed(made[t]) \subseteq PruneDelete(rows[t], S)
        BY <1>0, <4>1, <4>3, PruneKeeps
      <4>5. PruneDelete(writes[t], S) \subseteq writes[t]
        BY DEF PruneDelete
      <4>6. QED
        BY <1>3, <4>2, <4>4, <4>5 DEF Lasting
    <3>2. CASE proc[p].thread # t
      BY <1>0, <1>3, <1>7, <2>2, <3>2 DEF PruneCommits, Lasting
    <3>3. QED
      BY <3>1, <3>2
  <2>4. QED
    BY <1>3, <2>1, <2>2, <2>3 DEF Lasting, Only
<1>8. ASSUME NEW s \in Threads, DeleteRows(s)
      PROVE  Lasting(t)'
  <2>1. /\ cmd'.seen = {} /\ proc' = proc
    BY <1>8, NoCmdTyped DEF DeleteRows, Commands
  <2>2. CASE s = t
    <3>1. \A p \in Procs : proc'[p].thread # t
      BY <1>0, <1>8, <2>1, <2>2 DEF DeleteRows
    <3>2. rows'[t] = {} /\ writes'[t] = {} /\ made'[t] = {}
      BY <1>0, <1>8, <2>2 DEF DeleteRows
    <3>3. Needed({}) = {}
      BY DEF Needed, Oldest, Newest
    <3>4. QED
      BY <2>1, <3>1, <3>2, <3>3 DEF Lasting
  <2>3. CASE s # t
    <3>1. rows'[t] = rows[t] /\ writes'[t] = writes[t] /\ made'[t] = made[t]
      BY <1>0, <1>8, <2>3 DEF DeleteRows
    <3>2. QED
      BY <1>3, <2>1, <3>1, Untouched
  <2>4. QED
    BY <2>2, <2>3
<1>9. ASSUME \/ DeleteJournal \/ CommandEnds \/ CompactStarts
             \/ \E s \in Threads : CompactReads(s)
      PROVE  Lasting(t)'
  <2>1. UNCHANGED <<rows, writes, made, proc>>
    BY <1>9 DEF DeleteJournal, CommandEnds, CompactStarts, CompactReads, tables
  <2>2. cmd'.thread = t => cmd'.seen \subseteq made[t]
    <3>1. CASE DeleteJournal \/ CommandEnds
      BY <3>1, NoCmdTyped DEF DeleteJournal, CommandEnds
    <3>2. CASE CompactStarts
      BY <3>2, NoCmdTyped DEF CompactStarts, Commands
    <3>3. ASSUME NEW s \in Threads, CompactReads(s)
          PROVE  cmd'.thread = s /\ cmd'.seen = rows[s]
      BY <1>0, <3>3 DEF CompactReads, Commands
    <3>4. QED
      BY <1>3, <1>9, <3>1, <3>2, <3>3 DEF Lasting
  <2>3. QED
    BY <1>3, <2>1, <2>2, Untouched
<1>10. ASSUME CompactCommits
       PROVE  Lasting(t)'
  <2>1. proc' = proc /\ made' = made /\ cmd'.seen = {} /\ cmd.thread \in Threads
    BY <1>0, <1>10 DEF CompactCommits, Commands, StoreTyped, CommandTyped
  <2>2. /\ rows'[t] \subseteq rows[t] /\ writes'[t] \subseteq writes[t]
        /\ Needed(made[t]) \subseteq rows'[t]
    <3>1. CASE cmd.thread = t /\ CompactVictims(cmd.seen) # {}
      <4> DEFINE S == cmd.seen
      <4>1. S \subseteq made[t] /\ rows[t] \subseteq made[t] /\ writes[t] \subseteq made[t]
        BY <1>3, <3>1 DEF Lasting
      <4>2. rows'[t] = CompactDelete(rows[t], S) /\ writes'[t] = CompactDelete(writes[t], S)
        BY <1>0, <1>10, <3>1 DEF CompactCommits
      <4>3. CompactVictims(S) # {}
        BY <3>1
      <4> HIDE DEF S
      <4>4. /\ CompactDelete(rows[t], S) \subseteq rows[t]
            /\ rows[t] \cap Needed(made[t]) \subseteq CompactDelete(rows[t], S)
        BY <1>0, <4>1, <4>3, CompactKeeps
      <4>5. CompactDelete(writes[t], S) \subseteq writes[t]
        BY DEF CompactDelete
      <4>6. QED
        BY <1>3, <4>2, <4>4, <4>5 DEF Lasting
    <3>2. CASE ~(cmd.thread = t /\ CompactVictims(cmd.seen) # {})
      <4>1. rows'[t] = rows[t] /\ writes'[t] = writes[t]
        BY <1>0, <1>10, <2>1, <3>2 DEF CompactCommits
      <4>2. QED
        BY <1>3, <4>1 DEF Lasting
    <3>3. QED
      BY <3>1, <3>2
  <2>3. QED
    BY <1>3, <2>1, <2>2 DEF Lasting
<1>11. CASE UNCHANGED <<rows, writes, made, proc, cmd>>
  BY <1>3, <1>11 DEF Lasting
<1>12. QED
  BY <1>4, <1>5, <1>6, <1>7, <1>8, <1>9, <1>10, <1>11
     DEF Next, vars, tables, NodeSaves, ListRows, ListCounts

LEMMA StoreInvariant == Spec => [](StoreTyped /\ Retention)
<1>1. StoreTyped /\ Retention /\ [Next]_vars => (StoreTyped /\ Retention)'
  BY RetentionStep, TablesStep, ProcsStep, CommandStep, ListStep DEF StoreTyped
<1>2. QED
  BY <1>1, StoreInit, RetentionInit, PTL DEF Spec

\* The first turn's prompt is the earliest write a thread has.
LEMMA EarliestIs ==
  ASSUME NEW W, W \subseteq Ids, NEW m \in W, \A x \in W : m <= x
  PROVE  Min(W) = m
<1>1. Min(W) \in W /\ Min(W) <= m /\ m <= Min(W)
  BY SmallestId
<1>2. m \in Int /\ Min(W) \in Int
  BY <1>1, IdsAreFinite
<1>3. QED
  BY <1>1, <1>2

LEMMA PromptKept == StoreTyped /\ Retention /\ Retention' /\ StoreTyped' /\ [Next]_vars => PromptStays
<1> SUFFICES ASSUME StoreTyped, Retention, Retention', StoreTyped', [Next]_vars,
                    NEW t \in Threads, t \notin torn, rows[t] # {},
                    Oldest(rows[t]) \subseteq writes[t], rows'[t] # {}
             PROVE  InitialPrompt(t)' = InitialPrompt(t)
  BY DEF PromptStays
<1>0. /\ made[t] \subseteq Ids /\ rows[t] \subseteq Ids /\ writes[t] \subseteq Ids
      /\ writes'[t] \subseteq Ids /\ Lasting(t)
      /\ rows \in [Threads -> SUBSET Ids] /\ writes \in [Threads -> SUBSET Ids]
      /\ made \in [Threads -> SUBSET Ids]
      /\ \A p \in Procs : proc[p] \in Runtimes /\ Fit(proc[p])
  BY DEF StoreTyped, TablesTyped, ProcsTyped, Retention
<1> DEFINE m == Min(made[t])
<1>1. m \in made[t] /\ \A x \in made[t] : m <= x
  BY <1>0, SmallestId DEF Lasting
<1>2. m \in Oldest(made[t]) /\ m \in Needed(made[t])
  BY <1>1 DEF Oldest, Needed
<1>3. m \in rows[t] /\ m \in Oldest(rows[t]) /\ m \in writes[t]
  BY <1>0, <1>1, <1>2 DEF Lasting, Oldest
<1> HIDE DEF m
<1>4. InitialPrompt(t) = m
  <2>1. Min(writes[t]) = m
    BY <1>0, <1>1, <1>3, EarliestIs DEF Lasting
  <2>2. QED
    BY <1>3, <2>1 DEF InitialPrompt
<1>5. writes'[t] = writes[t] \/ (m \in writes'[t] /\ writes'[t] \subseteq made[t])
  <2>1. ASSUME NEW p \in Procs, PutWrites(p)
        PROVE  m \in writes'[t] /\ writes'[t] \subseteq made[t]
    <3>1. /\ t \notin torn' /\ made' = made /\ proc[p].thread \in Threads
      BY <1>0, <2>1 DEF PutWrites, Fit
    <3>2. writes'[t] \subseteq made[t]
      BY <3>1 DEF Retention, Lasting
    <3>3. writes[t] \subseteq writes'[t]
      BY <1>0, <2>1, <3>1 DEF PutWrites
    <3>4. QED
      BY <1>3, <3>2, <3>3
  <2>2. ASSUME NEW p \in Procs, PruneCommits(p)
        PROVE  writes'[t] = writes[t] \/ (m \in writes'[t] /\ writes'[t] \subseteq made[t])
    <3>1. proc[p].thread \in Threads /\ PruneVictims(proc[p].seen) # {}
      BY <1>0, <2>2 DEF PruneCommits, Fit
    <3>2. CASE proc[p].thread = t
      <4> DEFINE S == proc[p].seen
      <4>1. S \subseteq made[t] /\ writes[t] \subseteq made[t]
        BY <1>0, <3>2 DEF Lasting
      <4>2. writes'[t] = PruneDelete(writes[t], S)
        BY <1>0, <2>2, <3>2 DEF PruneCommits
      <4>3. PruneVictims(S) # {}
        BY <3>1
      <4> HIDE DEF S
      <4>4. /\ PruneDelete(writes[t], S) \subseteq writes[t]
            /\ writes[t] \cap Needed(made[t]) \subseteq PruneDelete(writes[t], S)
        BY <1>0, <4>1, <4>3, PruneKeeps
      <4>5. QED
        BY <1>2, <1>3, <4>1, <4>2, <4>4
    <3>3. CASE proc[p].thread # t
      BY <1>0, <2>2, <3>1, <3>3 DEF PruneCommits
    <3>4. QED
      BY <3>2, <3>3
  <2>3. ASSUME CompactCommits
        PROVE  writes'[t] = writes[t] \/ (m \in writes'[t] /\ writes'[t] \subseteq made[t])
    <3>1. cmd.thread \in Threads
      BY <2>3 DEF CompactCommits, StoreTyped, CommandTyped
    <3>2. CASE cmd.thread = t /\ CompactVictims(cmd.seen) # {}
      <4> DEFINE S == cmd.seen
      <4>1. S \subseteq made[t] /\ writes[t] \subseteq made[t]
        BY <1>0, <3>2 DEF Lasting
      <4>2. writes'[t] = CompactDelete(writes[t], S)
        BY <1>0, <2>3, <3>2 DEF CompactCommits
      <4>3. CompactVictims(S) # {}
        BY <3>2
      <4> HIDE DEF S
      <4>4. /\ CompactDelete(writes[t], S) \subseteq writes[t]
            /\ writes[t] \cap Needed(made[t]) \subseteq CompactDelete(writes[t], S)
        BY <1>0, <4>1, <4>3, CompactKeeps
      <4>5. QED
        BY <1>2, <1>3, <4>1, <4>2, <4>4
    <3>3. CASE ~(cmd.thread = t /\ CompactVictims(cmd.seen) # {})
      BY <1>0, <2>3, <3>1, <3>3 DEF CompactCommits
    <3>4. QED
      BY <3>2, <3>3
  <2>4. ASSUME NEW s \in Threads, DeleteRows(s)
        PROVE  writes'[t] = writes[t]
    BY <1>0, <2>4 DEF DeleteRows
  <2>5. CASE UNCHANGED writes
    BY <2>5
  <2>6. QED
    BY <2>1, <2>2, <2>3, <2>4, <2>5 DEF Next, vars, tables, OpenRuntime, DrawId, PutCheckpoint,
       NodeSaves, NodeEnds, PruneReads, AbandonTurn, CloseRuntime, StartTurn, CompactReads,
       ListRows, DeleteJournal, CompactStarts, CommandEnds, ListCounts
<1>6. CASE writes'[t] = writes[t]
  BY <1>6 DEF InitialPrompt
<1>7. CASE m \in writes'[t] /\ writes'[t] \subseteq made[t]
  <2>1. Min(writes'[t]) = m
    BY <1>0, <1>1, <1>7, EarliestIs
  <2>2. QED
    BY <1>4, <1>7, <2>1 DEF InitialPrompt
<1>8. QED
  BY <1>5, <1>6, <1>7

\* Whatever prunes, compacts, deletes or commits late, in whatever processes: no
\* step takes from a thread its first row, the newest rows or its prompt.
THEOREM RetentionHolds == Spec => RetentionIsSound
<1>1. Retention => RetentionKeepsNewest
  BY DEF Retention, Lasting, Needed, RetentionKeepsNewest
<1>2. /\ StoreTyped /\ Retention /\ (StoreTyped /\ Retention)' /\ [Next]_vars
      => [RetentionKeepsNewest' /\ PromptStays]_vars
  <2>1. Retention' => RetentionKeepsNewest'
    BY <1>1, PTL
  <2>2. QED
    BY <2>1, PromptKept
<1>3. QED
  BY <1>2, StoreInvariant, PTL DEF Spec, RetentionIsSound

----------------------------------------------------------------------------
(* The database: the count the list shows *)

\* A row that was shown of t is one of its own, or of a chat deleted before all
\* that t holds and is still to get.
Past(x, t) ==
  \/ x \in made[t]
  \/ /\ \A i \in made[t] : x < i
     /\ \A p \in Procs : proc[p].thread = t /\ proc[p].step = "put" => x < proc[p].id

Noted(t) ==
  /\ Past(cache[t][1], t) /\ cache[t][1] <= clock
  /\ list.step = "count" /\ list.thread = t => Past(list.row, t) /\ list.row <= clock
  /\ cache[t][1] \in made[t] /\ (\A i \in made[t] : i <= cache[t][1]) => cache[t][2] = cache[t][1]

Freshness ==
  /\ \A t \in Threads : \A i \in made[t] : i <= clock
  /\ \A p \in Procs : proc[p].id <= clock
  /\ \A t \in Threads \ torn : Noted(t)

\* The newest row of a thread is the newest one committed.
LEMMA LatestIsNewest ==
  ASSUME StoreTyped, NEW t \in Threads, Lasting(t), made[t] # {}
  PROVE  /\ rows[t] # {} /\ LatestId(t) \in made[t]
         /\ \A i \in made[t] : i <= LatestId(t)
<1> DEFINE m == Max(made[t])
<1>1. made[t] \subseteq Ids /\ rows[t] \subseteq made[t] /\ TablesTyped
  BY DEF StoreTyped, TablesTyped, Lasting
<1>2. m \in made[t] /\ \A i \in made[t] : m >= i
  BY <1>1, LargestId
<1>3. m \in Int /\ \A i \in made[t] : i \in Int
  BY <1>1, <1>2, IdsAreFinite
<1> HIDE DEF m
<1>4. {j \in made[t] : j > m} = {}
  <2> SUFFICES ASSUME NEW j \in made[t]
               PROVE  ~(j > m)
    OBVIOUS
  <2>1. j \in Int /\ m >= j
    BY <1>2, <1>3
  <2>2. QED
    BY <1>3, <2>1
<1>5. m \in Newest(made[t], Keep)
  BY <1>2, <1>4, FS_EmptySet, KeepAssumption DEF Newest
<1>6. m \in rows[t]
  BY <1>5 DEF Lasting, Needed
<1>7. LatestId(t) \in rows[t] /\ m <= LatestId(t)
  BY <1>1, <1>6, LatestTyped
<1>8. LatestId(t) \in made[t] /\ LatestId(t) <= m /\ LatestId(t) \in Int
  BY <1>1, <1>2, <1>3, <1>7
<1>9. LatestId(t) = m
  BY <1>3, <1>7, <1>8
<1>10. \A i \in made[t] : i <= LatestId(t)
  BY <1>2, <1>3, <1>9
<1>11. QED
  BY <1>6, <1>8, <1>10

LEMMA FreshnessInit == Init => Freshness
<1> SUFFICES ASSUME Init
             PROVE  Freshness
  OBVIOUS
<1>1. \A t \in Threads : Noted(t)
  BY NoThreadAssumption DEF Init, Noted, Past, Closed, NoList
<1>2. QED
  BY <1>1 DEF Init, Freshness, Closed

LEMMA ClocksStep ==
  StoreTyped /\ Freshness /\ [Next]_vars =>
    /\ (\A t \in Threads : \A i \in made[t] : i <= clock)'
    /\ (\A p \in Procs : proc[p].id <= clock)'
<1> SUFFICES ASSUME StoreTyped, Freshness, [Next]_vars
             PROVE  /\ \A t \in Threads : \A i \in made'[t] : i <= clock'
                    /\ \A p \in Procs : proc'[p].id <= clock'
  OBVIOUS
<1>0. /\ clock \in Nat /\ made \in [Threads -> SUBSET Ids] /\ proc \in [Procs -> Runtimes]
      /\ \A p \in Procs : proc[p].id \in Int /\ proc[p].id <= clock
      /\ \A t \in Threads : \A i \in made[t] : i \in Int /\ i <= clock
  BY DEF StoreTyped, TablesTyped, ProcsTyped, Freshness, Runtimes, Ids
<1>1. ASSUME NEW p \in Procs, DrawId(p)
      PROVE  /\ \A t \in Threads : \A i \in made'[t] : i <= clock'
             /\ \A q \in Procs : proc'[q].id <= clock'
  <2>1. clock' = clock + 1 /\ made' = made
    BY <1>1 DEF DrawId, tables
  <2>2. Only(p) /\ proc'[p].id = clock + 1
    BY <1>1, IdDrawn
  <2>3. QED
    BY <1>0, <2>1, <2>2 DEF Only
<1>2. ASSUME NEW p \in Procs, PutCheckpoint(p)
      PROVE  /\ \A t \in Threads : \A i \in made'[t] : i <= clock'
             /\ \A q \in Procs : proc'[q].id <= clock'
  <2>1. Only(p) /\ proc'[p].id = proc[p].id
    BY <1>2, CheckpointPut
  <2>2. \A t \in Threads : made'[t] \subseteq made[t] \cup {proc[p].id}
    BY <1>0, <1>2 DEF PutCheckpoint
  <2>3. clock' = clock
    BY <1>2 DEF PutCheckpoint
  <2>4. QED
    BY <1>0, <2>1, <2>2, <2>3 DEF Only
<1>3. ASSUME NEW p \in Procs,
             \/ OpenRuntime(p) \/ PutWrites(p) \/ NodeEnds(p) \/ PruneReads(p)
             \/ PruneCommits(p) \/ AbandonTurn(p) \/ CloseRuntime(p)
             \/ \E t \in Threads : StartTurn(p, t)
      PROVE  /\ \A t \in Threads : \A i \in made'[t] : i <= clock'
             /\ \A q \in Procs : proc'[q].id <= clock'
  <2>1. clock' = clock /\ made' = made
    BY <1>3 DEF OpenRuntime, PutWrites, NodeEnds, PruneReads, PruneCommits, AbandonTurn,
       CloseRuntime, StartTurn, tables
  <2>2. Only(p) /\ (proc'[p].id = proc[p].id \/ proc'[p].id = 0)
    BY <1>3, Opened, TurnStarted, WritesPut, NodeEnded, Pruned
  <2>3. QED
    BY <1>0, <2>1, <2>2 DEF Only
<1>4. ASSUME NEW s \in Threads, DeleteRows(s)
      PROVE  /\ \A t \in Threads : \A i \in made'[t] : i <= clock'
             /\ \A q \in Procs : proc'[q].id <= clock'
  BY <1>0, <1>4 DEF DeleteRows
<1>5. CASE UNCHANGED <<clock, made, proc>>
  BY <1>0, <1>5
<1>6. QED
  BY <1>1, <1>2, <1>3, <1>4, <1>5 DEF Next, vars, tables, NodeSaves, CompactReads, ListRows,
     DeleteJournal, CompactStarts, CompactCommits, CommandEnds, ListCounts

LEMMA NotedStep == StoreTyped /\ Retention /\ Freshness /\ [Next]_vars =>
                     \A t \in Threads \ torn' : Noted(t)'
<1> SUFFICES ASSUME StoreTyped, Retention, Freshness, [Next]_vars, NEW t \in Threads, t \notin torn'
             PROVE  Noted(t)'
  OBVIOUS
<1>0. t \notin torn
  BY DEF Next, vars, tables, OpenRuntime, DrawId, PutCheckpoint, PutWrites, NodeSaves, NodeEnds,
     PruneReads, PruneCommits, AbandonTurn, CloseRuntime, StartTurn, DeleteRows, CompactReads,
     ListRows, DeleteJournal, CompactStarts, CompactCommits, CommandEnds, ListCounts
<1>1. Noted(t) /\ Lasting(t)
  BY <1>0 DEF Freshness, Retention
<1>2. /\ clock \in Int /\ clock >= 0 /\ made \in [Threads -> SUBSET Ids] /\ made[t] \subseteq Ids
      /\ cache \in [Threads -> (0..MaxId) \X (0..MaxId)]
      /\ cache[t][1] \in Int /\ list.row \in Int
      /\ \A i \in made[t] : i \in Int /\ i <= clock
      /\ \A p \in Procs : proc[p].id \in Int /\ proc[p].id <= clock
      /\ TablesTyped
  <2>1. cache[t] \in (0..MaxId) \X (0..MaxId) /\ list.row \in 0..MaxId
    BY DEF StoreTyped, ListTyped, Listings
  <2>2. \A p \in Procs : proc[p].id \in 0..MaxId /\ proc[p].id <= clock
    BY DEF StoreTyped, ProcsTyped, Runtimes, Freshness
  <2>3. clock \in 0..MaxId /\ made \in [Threads -> SUBSET Ids] /\ \A i \in made[t] : i <= clock
    BY DEF StoreTyped, TablesTyped, Freshness
  <2>4. QED
    BY <2>1, <2>2, <2>3 DEF StoreTyped, ListTyped, Ids
\* Steps after which made, the cache and the list are what they were.
<1>3. ASSUME UNCHANGED listing, made'[t] = made[t], clock' \in Int, clock' >= clock,
             \A p \in Procs : proc'[p].thread = t /\ proc'[p].step = "put" =>
                proc'[p] = proc[p] \/ proc'[p].id = clock + 1
      PROVE  Noted(t)'
  <2>1. cache[t][1] <= clock /\ Past(cache[t][1], t)
    BY <1>1 DEF Noted
  <2>2. Past(cache[t][1], t)' /\ cache'[t][1] <= clock'
    <3>1. Past(cache[t][1], t)' <=> \/ cache[t][1] \in made'[t]
                                    \/ /\ \A i \in made'[t] : cache[t][1] < i
                                       /\ \A p \in Procs : proc'[p].thread = t /\ proc'[p].step = "put"
                                             => cache[t][1] < proc'[p].id
      BY <1>3 DEF Past, listing
    <3>2. QED
      BY <1>2, <1>3, <2>1, <3>1 DEF Past, listing
  <2>3. list'.step = "count" /\ list'.thread = t => Past(list.row, t)' /\ list'.row <= clock'
    BY <1>1, <1>2, <1>3 DEF Noted, Past, listing
  <2>4. QED
    BY <1>1, <1>3, <2>2, <2>3 DEF Noted, listing
<1>4. ASSUME NEW p \in Procs,
             \/ OpenRuntime(p) \/ DrawId(p) \/ PutWrites(p) \/ NodeSaves(p) \/ NodeEnds(p)
             \/ PruneReads(p) \/ PruneCommits(p) \/ AbandonTurn(p) \/ CloseRuntime(p)
             \/ \E s \in Threads : StartTurn(p, s)
      PROVE  Noted(t)'
  <2>1. UNCHANGED listing /\ made' = made
    BY <1>4 DEF OpenRuntime, DrawId, PutWrites, NodeSaves, NodeEnds, PruneReads, PruneCommits,
       AbandonTurn, CloseRuntime, StartTurn, tables
  <2>2. clock' \in {clock, clock + 1}
    BY <1>4 DEF OpenRuntime, DrawId, PutWrites, NodeSaves, NodeEnds, PruneReads, PruneCommits,
       AbandonTurn, CloseRuntime, StartTurn
  <2>3. \A q \in Procs : proc'[q] = proc[q] \/ proc'[q].step # "put" \/ proc'[q].id = clock + 1
    <3>1. proc' = proc \/ (Only(p) /\ (proc'[p].step # "put" \/ proc'[p].id = clock + 1))
      BY <1>4, Opened, IdDrawn, WritesPut, NodeEnded, Pruned, TurnStarted DEF NodeSaves
    <3>2. QED
      BY <3>1 DEF Only
  <2>4. clock' \in Int /\ clock' >= clock
    BY <1>2, <2>2
  <2>5. QED
    BY <1>3, <2>1, <2>3, <2>4
<1>5. ASSUME NEW p \in Procs, PutCheckpoint(p)
      PROVE  Noted(t)'
  <2>1. Only(p) /\ proc'[p].step # "put"
    BY <1>5, CheckpointPut
  <2>2. UNCHANGED listing /\ clock' = clock /\ proc[p].step = "put"
    BY <1>5 DEF PutCheckpoint
  <2>3. \A q \in Procs : proc'[q] = proc[q] \/ proc'[q].step # "put"
    BY <2>1 DEF Only
  <2>4. CASE proc[p].thread # t
    <3>1. made'[t] = made[t]
      BY <1>2, <1>5, <2>4 DEF PutCheckpoint
    <3>2. QED
      BY <1>2, <1>3, <2>2, <2>3, <3>1
  <2>5. CASE proc[p].thread = t
    <3> DEFINE i == proc[p].id
    <3>1. made'[t] = made[t] \cup {i} /\ i \in Int
      BY <1>2, <1>5, <2>5 DEF PutCheckpoint
    <3>2. ASSUME NEW x \in Int, Past(x, t)
          PROVE  \/ x \in made'[t]
                 \/ /\ \A j \in made'[t] : x < j
                    /\ \A q \in Procs : proc'[q].thread = t /\ proc'[q].step = "put" => x < proc'[q].id
      BY <2>2, <2>3, <2>5, <3>1, <3>2 DEF Past
    <3>3. Past(cache[t][1], t)' /\ cache'[t][1] <= clock'
      BY <1>1, <1>2, <2>2, <3>2 DEF Noted, Past, listing
    <3>4. list'.step = "count" /\ list'.thread = t => Past(list.row, t)' /\ list'.row <= clock'
      BY <1>1, <1>2, <2>2, <3>2 DEF Noted, Past, listing
    <3>5. cache[t][1] \in made'[t] /\ (\A j \in made'[t] : j <= cache[t][1])
            => cache[t][2] = cache[t][1]
      <4> SUFFICES ASSUME cache[t][1] \in made'[t], \A j \in made'[t] : j <= cache[t][1]
                   PROVE  cache[t][2] = cache[t][1]
        OBVIOUS
      <4>1. i <= cache[t][1] /\ \A j \in made[t] : j <= cache[t][1]
        BY <3>1
      <4>2. cache[t][1] \in made[t]
        <5>1. Past(cache[t][1], t)
          BY <1>1 DEF Noted
        <5>2. ~(cache[t][1] < i)
          BY <1>2, <3>1, <4>1
        <5>3. QED
          BY <2>2, <2>5, <5>1, <5>2 DEF Past
      <4>3. QED
        BY <1>1, <4>1, <4>2 DEF Noted
    <3>6. QED
      BY <2>2, <3>3, <3>4, <3>5 DEF Noted, listing
  <2>6. QED
    BY <2>4, <2>5
<1>6. ASSUME NEW s \in Threads, DeleteRows(s)
      PROVE  Noted(t)'
  <2>1. UNCHANGED listing /\ clock' = clock /\ proc' = proc
    BY <1>6 DEF DeleteRows
  <2>2. CASE s # t
    <3>1. made'[t] = made[t]
      BY <1>2, <1>6, <2>2 DEF DeleteRows
    <3>2. QED
      BY <1>2, <1>3, <2>1, <3>1
  <2>3. CASE s = t
    <3>1. made'[t] = {} /\ \A p \in Procs : proc'[p].thread # t
      BY <1>2, <1>6, <2>1, <2>3 DEF DeleteRows, StoreTyped, TablesTyped
    <3>2. QED
      BY <1>1, <2>1, <3>1 DEF Noted, Past, listing
  <2>4. QED
    BY <2>2, <2>3
<1>7. ASSUME \/ DeleteJournal \/ CommandEnds \/ CompactStarts \/ CompactCommits
             \/ \E s \in Threads : CompactReads(s)
      PROVE  Noted(t)'
  <2>1. UNCHANGED <<made, proc, clock>> /\ UNCHANGED listing
    BY <1>7 DEF DeleteJournal, CommandEnds, CompactStarts, CompactCommits, CompactReads, tables
  <2>2. QED
    BY <1>2, <1>3, <2>1
<1>8. ASSUME NEW s \in Threads, ListRows(s)
      PROVE  Noted(t)'
  <2>1. /\ UNCHANGED <<made, proc, clock, cache>> /\ rows[s] # {}
        /\ list'.thread = s /\ list'.row = LatestId(s)
    BY <1>8 DEF ListRows, tables
  <2>2. Past(cache[t][1], t)' /\ cache'[t][1] <= clock'
    BY <1>1, <2>1 DEF Noted, Past
  <2>3. s = t => LatestId(t) \in made[t]
    BY <1>1, <1>2, <2>1, LatestTyped DEF Lasting
  <2>4. list'.thread = t => Past(list.row, t)' /\ list'.row <= clock'
    BY <1>2, <2>1, <2>3 DEF Past
  <2>5. QED
    BY <1>1, <2>1, <2>2, <2>4 DEF Noted
<1>9. ASSUME ListCounts
      PROVE  Noted(t)'
  <2> DEFINE s == list.thread
             count == IF cache[s][1] = list.row THEN cache[s][2] ELSE LatestId(s)
  <2>1. /\ UNCHANGED <<made, proc, clock>> /\ list.step = "count"
        /\ cache' = [cache EXCEPT ![s] = <<list.row, count>>] /\ list' = NoList
    BY <1>9 DEF ListCounts, tables
  <2>2. list'.step # "count"
    BY <2>1 DEF NoList
  <2>3. CASE s # t
    <3>1. cache'[t] = cache[t]
      BY <1>2, <2>1, <2>3
    <3>2. Past(cache[t][1], t)' /\ cache'[t][1] <= clock'
      BY <1>1, <2>1, <3>1 DEF Noted, Past
    <3>3. QED
      BY <1>1, <2>1, <2>2, <3>1, <3>2 DEF Noted
  <2>4. CASE s = t
    <3>1. cache'[t][1] = list.row /\ cache'[t][2] = count
      <4> HIDE DEF count
      <4>1. cache'[t] = <<list.row, count>>
        BY <1>2, <2>1, <2>4
      <4>2. QED
        BY <4>1
    <3>2. Past(list.row, t) /\ list.row <= clock
      BY <1>1, <2>1, <2>4 DEF Noted
    <3>3. Past(cache[t][1], t)' /\ cache'[t][1] <= clock'
      BY <2>1, <3>1, <3>2 DEF Past
    <3>4. list.row \in made[t] /\ (\A i \in made[t] : i <= list.row) => count = list.row
      <4> SUFFICES ASSUME list.row \in made[t], \A i \in made[t] : i <= list.row
                   PROVE  count = list.row
        OBVIOUS
      <4>1. CASE cache[t][1] = list.row
        BY <1>1, <2>4, <4>1 DEF Noted
      <4>2. CASE cache[t][1] # list.row
        <5>1. /\ LatestId(t) \in made[t] /\ LatestId(t) <= list.row /\ list.row <= LatestId(t)
          BY <1>1, LatestIsNewest
        <5>2. LatestId(t) = list.row
          BY <1>2, <5>1
        <5>3. QED
          BY <2>4, <4>2, <5>2
      <4>3. QED
        BY <4>1, <4>2
    <3>5. QED
      BY <2>1, <2>2, <3>1, <3>3, <3>4 DEF Noted
  <2>5. QED
    BY <2>3, <2>4
<1>10. CASE UNCHANGED vars
  BY <1>2, <1>3, <1>10 DEF vars, listing
<1>11. QED
  BY <1>4, <1>5, <1>6, <1>7, <1>8, <1>9, <1>10 DEF Next

\* The count the list shows for a chat whose newest row it knows is the count of
\* that row: the cache never answers with another turn's, also after the chat was
\* deleted and begun again.
THEOREM ListStaysFresh == Spec => []ListIsFresh
<1>1. StoreTyped /\ Retention /\ Freshness /\ [Next]_vars => Freshness'
  BY ClocksStep, NotedStep DEF Freshness
<1>2. StoreTyped /\ Retention /\ Freshness => ListIsFresh
  <2> SUFFICES ASSUME StoreTyped, Retention, Freshness, NEW t \in Threads \ torn,
                      rows[t] # {}, cache[t][1] = LatestId(t)
               PROVE  cache[t][2] = cache[t][1]
    BY DEF ListIsFresh
  <2>1. Noted(t) /\ Lasting(t)
    BY DEF Freshness, Retention
  <2>2. made[t] # {}
    BY <2>1 DEF Lasting
  <2>3. LatestId(t) \in made[t] /\ \A i \in made[t] : i <= LatestId(t)
    BY <2>1, <2>2, LatestIsNewest
  <2>4. QED
    BY <2>1, <2>3 DEF Noted
<1>3. QED
  BY <1>1, <1>2, FreshnessInit, StoreInvariant, PTL DEF Spec

HIDE ContextAssumption

----------------------------------------------------------------------------
(* The replay log: what is compacted, stored turn by turn and rewritten *)

Compacting == INSTANCE Folding WITH Op <- CompactStep
Rendering == INSTANCE Folding WITH Op <- RenderStep

Kinds == {"reasoning", "status", "text"}
Events == [type : Kinds, turn : Turns \cup {NoTurn}, seq : Nat, attempt : Int, text : Seq(Nat)]
GateStates == [turn : Turns \cup {NoTurn}, attempt : Int, last : Nat]
Compactions == [state : GateStates, out : Seq(Events), joinable : BOOLEAN]
Renderings == [state : GateStates, shown : Seq(Kinds \X Nat)]

NothingCompacted == [state |-> FreshState, out |-> <<>>, joinable |-> FALSE]
NothingShown == [state |-> FreshState, shown |-> <<>>]
Shown(e) == [i \in 1..Len(e.text) |-> <<e.type, e.text[i]>>]

LEMMA CompactFolds == \A events : Compact(events) = Compacting!Fold(NothingCompacted, events).out
BY DEF Compact, NothingCompacted, FoldLeft, MapThenFoldSet, Max,
       Compacting!Fold, Compacting!Unfolded, Compacting!Largest

LEMMA ReplayFolds == \A events : Replay(events) = Rendering!Fold(NothingShown, events)
BY DEF Replay, NothingShown, FoldLeft, MapThenFoldSet, Max,
       Rendering!Fold, Rendering!Unfolded, Rendering!Largest

LEMMA EventFields ==
  \A e \in Events : /\ e.type \in Kinds /\ e.turn \in Turns \cup {NoTurn} /\ e.seq \in Nat
                    /\ e.attempt \in Int /\ e.text \in Seq(Nat)
BY DEF Events

LEMMA GateFields ==
  \A s \in GateStates : s.turn \in Turns \cup {NoTurn} /\ s.attempt \in Int /\ s.last \in Nat
BY DEF GateStates

LEMMA EnteredTyped ==
  ASSUME NEW s \in GateStates, NEW e \in Events
  PROVE  Entered(s, e) \in GateStates
<1>1. CASE NewTurn(s, e)
  BY <1>1, EventFields DEF Entered, GateStates, NoSequence
<1>2. CASE ~NewTurn(s, e) /\ NewerAttempt(s, e)
  BY <1>2, EventFields DEF Entered, GateStates, NoSequence
<1>3. CASE ~NewTurn(s, e) /\ ~NewerAttempt(s, e)
  BY <1>3 DEF Entered
<1> QED BY <1>1, <1>2, <1>3

LEMMA AppliedTyped ==
  ASSUME NEW s \in GateStates, NEW e \in Events
  PROVE  Applied(s, e) \in GateStates
<1> DEFINE n == Entered(s, e)
<1>1. n \in GateStates /\ e.seq \in Nat
  BY EnteredTyped, EventFields
<1> HIDE DEF n
<1>2. [n EXCEPT !.last = e.seq] \in GateStates
  BY <1>1 DEF GateStates
<1> QED BY <1>1, <1>2 DEF Applied, n

\* The gate lets the joined event through and is left as by the two.
LEMMA JoinGate ==
  ASSUME NEW s \in GateStates, NEW l \in Events, NEW e \in Events,
         Accepts(s, l), Accepts(Applied(s, l), e), l.turn = e.turn, l.attempt = e.attempt
  PROVE  /\ Join(l, e) \in Events /\ Join(l, e).type = l.type /\ Join(l, e).turn = l.turn
         /\ Join(l, e).attempt = l.attempt /\ Join(l, e).text = l.text \o e.text
         /\ Accepts(s, Join(l, e)) /\ Applied(s, Join(l, e)) = Applied(Applied(s, l), e)
<1> DEFINE j == Join(l, e)
           n == Entered(s, l)
           t == Applied(s, l)
<1>1. /\ l.type \in Kinds /\ l.turn \in Turns \cup {NoTurn} /\ l.seq \in Nat /\ l.attempt \in Int
      /\ l.text \in Seq(Nat) /\ e.seq \in Nat /\ e.text \in Seq(Nat) /\ l.text \o e.text \in Seq(Nat)
  BY EventFields
<1>2. /\ j \in Events /\ j.type = l.type /\ j.turn = l.turn /\ j.attempt = l.attempt
      /\ j.text = l.text \o e.text /\ j.seq = IF e.seq # 0 THEN e.seq ELSE l.seq
  <2> DEFINE text == l.text \o e.text
             seq == IF e.seq # 0 THEN e.seq ELSE l.seq
  <2>1. j = [[l EXCEPT !.text = text] EXCEPT !.seq = seq]
    BY DEF Join, NoSequence, Events
  <2>2. text \in Seq(Nat) /\ seq \in Nat
    BY <1>1
  <2> HIDE DEF text, seq
  <2>3. /\ j \in Events /\ j.type = l.type /\ j.turn = l.turn /\ j.attempt = l.attempt
        /\ j.text = text /\ j.seq = seq
    BY <2>1, <2>2 DEF Events
  <2> QED BY <2>3 DEF text, seq
<1>3. n \in GateStates /\ t \in GateStates
  BY EnteredTyped, AppliedTyped
<1>4. /\ Entered(s, j) = n /\ ~OlderAttempt(s, j) /\ ~OlderAttempt(s, l)
      /\ l.seq # 0 /\ n.last # 0 => l.seq > n.last
  <2> HIDE DEF j
  <2> QED BY <1>2 DEF Entered, NewTurn, NewerAttempt, OlderAttempt, Accepts, NoSequence, n
<1>5. t = IF l.seq # 0 THEN [n EXCEPT !.last = l.seq] ELSE n
  BY <1>4 DEF Applied, NoSequence
<1>6. n.turn = l.turn \/ l.turn = NoTurn
  BY GateFields DEF Entered, NewTurn, NewerAttempt
<1>7. l.attempt # NoAttempt => n.attempt # NoAttempt /\ n.attempt >= l.attempt
  BY GateFields, <1>1, <1>4 DEF Entered, NewTurn, NewerAttempt, OlderAttempt, NoAttempt
<1>8. t.turn = n.turn /\ t.attempt = n.attempt /\ t.last = IF l.seq # 0 THEN l.seq ELSE n.last
  <2> HIDE DEF n, t
  <2> QED BY <1>3, <1>5 DEF GateStates
<1>9. ~NewTurn(t, e) /\ ~NewerAttempt(t, e) /\ Entered(t, e) = t
  <2>1. n.attempt \in Int
    BY <1>3, GateFields
  <2> HIDE DEF n, t
  <2>2. ~NewTurn(t, e)
    BY <1>6, <1>8 DEF NewTurn
  <2>3. ~NewerAttempt(t, e)
    BY <1>1, <1>7, <1>8, <2>1 DEF NewerAttempt
  <2> QED BY <2>2, <2>3 DEF Entered
<1>10. ~OlderAttempt(t, e) /\ (e.seq # 0 /\ t.last # 0 => e.seq > t.last)
  BY <1>9 DEF Accepts, NoSequence
<1>11. n.last \in Nat /\ t.last \in Nat
  BY <1>3, GateFields
<1>12. Accepts(s, j)
  <2>1. j.seq # 0 /\ n.last # 0 => j.seq > n.last
    <3> HIDE DEF j, n, t
    <3> QED BY <1>1, <1>2, <1>4, <1>8, <1>10, <1>11
  <2> HIDE DEF j, n, t
  <2> QED BY <1>4, <2>1 DEF Accepts, NoSequence
<1>13. Applied(s, j) = IF j.seq # 0 THEN [n EXCEPT !.last = j.seq] ELSE n
  <2> HIDE DEF j, n, t
  <2> QED BY <1>4, <1>12 DEF Applied, NoSequence
<1>14. Applied(t, e) = IF e.seq # 0 THEN [t EXCEPT !.last = e.seq] ELSE t
  <2> HIDE DEF j, n, t
  <2> QED BY <1>9, <1>10 DEF Applied, Accepts, NoSequence
<1>15. Applied(s, j) = Applied(t, e)
  <2> HIDE DEF j, n, t
  <2>1. CASE e.seq # 0
    <3>1. Applied(t, e) = [t EXCEPT !.last = e.seq] /\ Applied(s, j) = [n EXCEPT !.last = e.seq]
      BY <1>2, <1>13, <1>14, <2>1
    <3>2. [t EXCEPT !.last = e.seq] = [n EXCEPT !.last = e.seq]
      BY <1>3, <1>5 DEF GateStates
    <3> QED BY <3>1, <3>2
  <2>2. CASE e.seq = 0
    BY <1>2, <1>5, <1>13, <1>14, <2>2
  <2> QED BY <2>1, <2>2
<1> QED BY <1>2, <1>12, <1>15

\* The events before the last, and how compacting them went: the last one was not joined.
BeforeLast(acc, q) ==
  LET l == Last(acc.out) IN
  /\ q \in Compactions /\ Len(acc.out) >= 1
  /\ q = Compacting!Fold(NothingCompacted, Front(acc.out)) /\ q.out = Front(acc.out)
  /\ l.type = "reasoning" /\ Accepts(q.state, l) /\ ~CanJoin(q, l)
  /\ acc.state = Applied(q.state, l)

\* Compacting what was compacted changes nothing.
CompactAlready(acc) ==
  /\ acc \in Compactions
  /\ Compacting!Fold(NothingCompacted, acc.out) = acc
  /\ acc.joinable => \E q : BeforeLast(acc, q)

LEMMA NothingTyped == NothingCompacted \in Compactions /\ NothingShown \in Renderings
BY DEF NothingCompacted, NothingShown, Compactions, Renderings, FreshState, GateStates,
       NoAttempt, NoSequence

LEMMA NothingIsCompacted == CompactAlready(NothingCompacted)
<1> DEFINE none == <<>>
<1>1. DOMAIN none = {}
  OBVIOUS
<1>2. NothingCompacted.out = none /\ ~NothingCompacted.joinable
  BY DEF NothingCompacted
<1> HIDE DEF none
<1>3. Compacting!Fold(NothingCompacted, none) = NothingCompacted
  BY <1>1, Compacting!FoldEmpty
<1> QED BY <1>2, <1>3, NothingTyped DEF CompactAlready

LEMMA SnocFacts ==
  ASSUME NEW S, NEW s \in Seq(S), NEW e \in S
  PROVE  /\ Append(s, e) \in Seq(S) /\ Len(Append(s, e)) >= 1
         /\ Front(Append(s, e)) = s /\ Last(Append(s, e)) = e
<1> DEFINE t == Append(s, e)
           n == Len(s)
<1>1. /\ t \in Seq(S) /\ n \in Nat /\ Len(t) = n + 1 /\ t[n + 1] = e
      /\ \A i \in 1..n : t[i] = s[i]
  OBVIOUS
<1>2. Front(t) = SubSeq(t, 1, n)
  BY <1>1 DEF Front
<1>3. SubSeq(t, 1, n) = s
  OBVIOUS
<1> QED BY <1>1, <1>2, <1>3 DEF Last

LEMMA LastFacts ==
  ASSUME NEW S, NEW s \in Seq(S), Len(s) >= 1
  PROVE  Front(s) \in Seq(S) /\ Last(s) \in S /\ s = Append(Front(s), Last(s))
         /\ \A e : Front(s) \o <<e>> = Append(Front(s), e)
<1> DEFINE n == Len(s) - 1
           f == SubSeq(s, 1, n)
<1>1. n \in Nat /\ Len(s) = n + 1 /\ Front(s) = f /\ Last(s) = s[n + 1]
  BY DEF Front, Last
<1>5. DOMAIN s = 1..(n + 1) /\ n + 1 \in 1..(n + 1) /\ \A i \in 1..n : i \in 1..(n + 1)
  BY <1>1
<1> HIDE DEF n
<1>2. f \in Seq(S) /\ Len(f) = n /\ (\A i \in 1..n : f[i] = s[i]) /\ s[n + 1] \in S
  BY <1>1, <1>5
<1>3. s = Append(f, s[n + 1])
  <2>1. Append(f, s[n + 1]) = [i \in 1..(n + 1) |-> IF i = n + 1 THEN s[n + 1] ELSE f[i]]
    BY <1>1, <1>2
  <2>2. s = [i \in 1..(n + 1) |-> s[i]]
    BY <1>1
  <2> HIDE DEF f
  <2>3. \A i \in 1..(n + 1) : s[i] = IF i = n + 1 THEN s[n + 1] ELSE f[i]
    BY <1>1, <1>2
  <2> QED BY <2>1, <2>2, <2>3
<1>4. \A e : f \o <<e>> = Append(f, e)
  BY <1>2
<1> QED BY <1>1, <1>2, <1>3, <1>4

LEMMA CompactedStep ==
  ASSUME NEW acc, CompactAlready(acc), NEW e \in Events
  PROVE  CompactAlready(CompactStep(acc, e))
<1> DEFINE new1 == CompactStep(acc, e)
<1>1. /\ acc.state \in GateStates /\ acc.out \in Seq(Events) /\ acc.joinable \in BOOLEAN
      /\ acc \in Compactions /\ Compacting!Fold(NothingCompacted, acc.out) = acc
  BY DEF CompactAlready, Compactions
<1>2. Applied(acc.state, e) \in GateStates /\ (Accepts(acc.state, e) /\ e.type = "reasoning") \in BOOLEAN
  BY <1>1, AppliedTyped
<1>3. CASE e.type = "text"
  BY <1>3 DEF CompactStep
<1>4. CASE e.type # "text" /\ CanJoin(acc, e)
  <2>1. /\ e.type = "reasoning" /\ Accepts(acc.state, e) /\ acc.joinable
        /\ Last(acc.out).turn = e.turn /\ Last(acc.out).attempt = e.attempt
    BY <1>4 DEF CanJoin
  <2>2. PICK q : BeforeLast(acc, q)
    BY <2>1 DEF CompactAlready
  <2> DEFINE l == Last(acc.out)
             f == Front(acc.out)
             j == Join(l, e)
             longer == Append(f, j)
  <2>3. /\ q \in Compactions /\ Len(acc.out) >= 1 /\ q = Compacting!Fold(NothingCompacted, f)
        /\ q.out = f /\ l.type = "reasoning" /\ Accepts(q.state, l) /\ ~CanJoin(q, l)
        /\ acc.state = Applied(q.state, l) /\ q.state \in GateStates
    BY <2>2 DEF BeforeLast, Compactions
  <2>4. f \in Seq(Events) /\ l \in Events /\ f \o <<j>> = longer
    BY <1>1, <2>3, LastFacts
  <2> HIDE DEF l, f
  <2>5. /\ j \in Events /\ j.type = "reasoning" /\ j.turn = l.turn /\ j.attempt = l.attempt
        /\ Accepts(q.state, j) /\ Applied(q.state, j) = Applied(acc.state, e)
    <3> DEFINE g == q.state
    <3>1. Accepts(Applied(g, l), e) /\ Applied(g, l) = acc.state
      BY <2>1, <2>3
    <3>2. l.turn = e.turn /\ l.attempt = e.attempt
      BY <2>1 DEF l
    <3>3. g \in GateStates /\ Accepts(g, l) /\ l.type = "reasoning"
      BY <2>3
    <3>4. l \in Events
      BY <2>4
    <3> HIDE DEF g
    <3>5. /\ Join(l, e) \in Events /\ Join(l, e).type = l.type /\ Join(l, e).turn = l.turn
          /\ Join(l, e).attempt = l.attempt /\ Join(l, e).text = l.text \o e.text
          /\ Accepts(g, Join(l, e)) /\ Applied(g, Join(l, e)) = Applied(Applied(g, l), e)
      BY <3>1, <3>2, <3>3, <3>4, JoinGate
    <3> QED BY <3>1, <3>3, <3>5 DEF g
  <2> HIDE DEF j
  <2>6. new1 = [state |-> Applied(acc.state, e), out |-> longer, joinable |-> TRUE]
    BY <1>4, <2>1, <2>4 DEF CompactStep, l, f, j
  <2>7. ~CanJoin(q, j)
    BY <2>3, <2>5 DEF CanJoin
  <2>8. CompactStep(q, j) = new1
    BY <2>3, <2>5, <2>6, <2>7 DEF CompactStep
  <2>9. /\ longer \in Seq(Events) /\ Len(longer) >= 1 /\ Front(longer) = f /\ Last(longer) = j
    BY <2>4, <2>5, SnocFacts
  <2>10. Compacting!Fold(NothingCompacted, longer) = CompactStep(Compacting!Fold(NothingCompacted, f), j)
    BY <2>4, <2>5, Compacting!FoldAppend
  <2> HIDE DEF longer, new1
  <2>11. new1 \in Compactions
    BY <1>2, <2>6, <2>9 DEF Compactions
  <2>12. new1.out = longer /\ new1.state = Applied(q.state, j)
    BY <2>5, <2>6
  <2>13. BeforeLast(new1, q)
    BY <2>3, <2>5, <2>7, <2>9, <2>12 DEF BeforeLast
  <2>14. Compacting!Fold(NothingCompacted, new1.out) = new1
    BY <2>3, <2>8, <2>10, <2>12
  <2> QED BY <2>11, <2>13, <2>14 DEF CompactAlready, new1
<1>5. CASE e.type # "text" /\ ~CanJoin(acc, e)
  <2> DEFINE longer == Append(acc.out, e)
             on == Accepts(acc.state, e) /\ e.type = "reasoning"
  <2>1. new1 = [state |-> Applied(acc.state, e), out |-> longer, joinable |-> on]
    BY <1>5 DEF CompactStep
  <2>2. /\ longer \in Seq(Events) /\ Len(longer) >= 1 /\ Front(longer) = acc.out /\ Last(longer) = e
    BY <1>1, SnocFacts
  <2>3. Compacting!Fold(NothingCompacted, longer) = new1
    BY <1>1, Compacting!FoldAppend
  <2> HIDE DEF longer, on, new1
  <2>4. new1.out = longer /\ new1.state = Applied(acc.state, e) /\ new1.joinable = on
    BY <2>1
  <2>5. new1 \in Compactions
    BY <1>2, <2>1, <2>2 DEF Compactions, on
  <2>6. new1.joinable => BeforeLast(new1, acc)
    BY <1>1, <1>5, <2>2, <2>4 DEF BeforeLast, on
  <2> QED BY <2>3, <2>4, <2>5, <2>6 DEF CompactAlready, new1
<1> QED BY <1>3, <1>4, <1>5

\* The compact form of any log is compact, and its events go on as those of the log.
LEMMA CompactIsCompact ==
  ASSUME NEW events \in Seq(Events)
  PROVE  CompactAlready(Compacting!Fold(NothingCompacted, events))
<1> DEFINE T == {acc \in Compactions : CompactAlready(acc)}
<1>1. NothingCompacted \in T
  BY NothingIsCompacted, NothingTyped
<1>2. \A acc \in T, e \in Events : CompactStep(acc, e) \in T
  BY CompactedStep DEF CompactAlready
<1>3. Len(events) \in Nat /\ DOMAIN events = 1..Len(events) /\ \A i \in 1..Len(events) : events[i] \in Events
  OBVIOUS
<1> HIDE DEF T
<1>4. Compacting!Fold(NothingCompacted, events) \in T
  BY <1>1, <1>2, <1>3, Compacting!FoldType
<1> QED BY <1>4 DEF T

LEMMA CompactingBoth ==
  ASSUME NEW base, NEW a \in Seq(Events), NEW b \in Seq(Events)
  PROVE  Compacting!Fold(base, a \o b) = Compacting!Fold(Compacting!Fold(base, a), b)
<1> DEFINE m == Len(a)
           k == Len(b)
           whole == a \o b
<1>1. m \in Nat /\ k \in Nat /\ DOMAIN a = 1..m /\ DOMAIN b = 1..k /\ DOMAIN whole = 1..(m + k)
  OBVIOUS
<1>2. \A i \in 1..m : whole[i] = a[i]
  OBVIOUS
<1>3. \A i \in 1..k : whole[m + i] = b[i]
  OBVIOUS
<1> HIDE DEF m, k, whole
<1>4. Compacting!Fold(base, whole) = Compacting!Fold(Compacting!Fold(base, a), b)
  <2>1. DOMAIN a = 1..m
    BY <1>1
  <2>2. DOMAIN b = 1..k
    BY <1>1
  <2>3. DOMAIN whole = 1..(m + k)
    BY <1>1
  <2> QED BY <1>1, <1>2, <1>3, <2>1, <2>2, <2>3, Compacting!FoldConcat
<1> QED BY <1>4 DEF whole

\* How a log was cut into turns does not matter.
LEMMA CompactGoesOn ==
  ASSUME NEW a \in Seq(Events), NEW b \in Seq(Events)
  PROVE  /\ Compact(a) \in Seq(Events) /\ Compact(Compact(a)) = Compact(a)
         /\ Compact(Compact(a) \o b) = Compact(a \o b)
<1> DEFINE acc == Compacting!Fold(NothingCompacted, a)
<1>1. CompactAlready(acc) /\ acc.out = Compact(a)
  BY CompactIsCompact, CompactFolds
<1>2. acc.out \in Seq(Events) /\ Compacting!Fold(NothingCompacted, acc.out) = acc
  BY <1>1 DEF CompactAlready, Compactions
<1>3. Compact(acc.out) = acc.out
  BY <1>2, CompactFolds
<1>4. Compacting!Fold(NothingCompacted, a \o b) = Compacting!Fold(acc, b)
  BY CompactingBoth
<1> HIDE DEF acc
<1>5. Compacting!Fold(NothingCompacted, acc.out \o b) = Compacting!Fold(acc, b)
  BY <1>2, CompactingBoth
<1>6. Compact(acc.out \o b) = Compact(a \o b)
  BY <1>4, <1>5, CompactFolds
<1> QED BY <1>1, <1>2, <1>3, <1>6

LEMMA RenderStepTyped ==
  ASSUME NEW r \in Renderings, NEW e \in Events
  PROVE  /\ RenderStep(r, e) \in Renderings
         /\ e.type = "text" => RenderStep(r, e) = r
         /\ e.type # "text" => RenderStep(r, e).state = Applied(r.state, e)
<1> DEFINE on == IF Accepts(r.state, e) THEN r.shown \o Shown(e) ELSE r.shown
           g == Applied(r.state, e)
<1>1. r.state \in GateStates /\ r.shown \in Seq(Kinds \X Nat) /\ e.text \in Seq(Nat) /\ e.type \in Kinds
  BY EventFields DEF Renderings
<1>2. Shown(e) \in Seq(Kinds \X Nat)
  BY <1>1 DEF Shown
<1>3. on \in Seq(Kinds \X Nat)
  BY <1>1, <1>2
<1>4. g \in GateStates
  BY <1>1, AppliedTyped
<1>5. RenderStep(r, e) = IF e.type = "text" THEN r ELSE [state |-> g, shown |-> on]
  BY DEF RenderStep, Shown
<1> HIDE DEF on, g
<1>6. [state |-> g, shown |-> on] \in Renderings
  BY <1>3, <1>4 DEF Renderings
<1> QED BY <1>5, <1>6 DEF g

\* A joined event shows the chunks of the two.
LEMMA ShownJoined ==
  ASSUME NEW l \in Events, NEW e \in Events, NEW j \in Events,
         l.type = e.type, j.type = e.type, j.text = l.text \o e.text
  PROVE  Shown(j) = Shown(l) \o Shown(e)
<1> DEFINE a == l.text
           b == e.text
           m == Len(a)
           k == Len(b)
           kind == e.type
<1>1. a \in Seq(Nat) /\ b \in Seq(Nat) /\ m \in Nat /\ k \in Nat
  BY EventFields
<1> HIDE DEF a, b
<1>2. Len(a \o b) = m + k /\ \A i \in 1..(m + k) : (a \o b)[i] = IF i <= m THEN a[i] ELSE b[i - m]
  BY <1>1
<1>3. Shown(j) = [i \in 1..(m + k) |-> <<kind, IF i <= m THEN a[i] ELSE b[i - m]>>]
  BY <1>2 DEF Shown, a, b
<1>4. Shown(l) = [i \in 1..m |-> <<kind, a[i]>>] /\ Shown(e) = [i \in 1..k |-> <<kind, b[i]>>]
  BY DEF Shown, a, b
<1>5. \A i \in 1..m : a[i] \in Nat
  BY <1>1
<1>6. \A i \in 1..k : b[i] \in Nat
  BY <1>1
<1> HIDE DEF m, k, kind
<1> DEFINE pairs == {kind} \X Nat
           u == [i \in 1..m |-> <<kind, a[i]>>]
           v == [i \in 1..k |-> <<kind, b[i]>>]
<1>7. u \in Seq(pairs) /\ v \in Seq(pairs) /\ Len(u) = m /\ Len(v) = k
  BY <1>1, <1>5, <1>6
<1>8. \A i \in 1..(m + k) : (u \o v)[i] = IF i <= m THEN u[i] ELSE v[i - m]
  BY <1>1, <1>7
<1>9. u \o v = [i \in 1..(m + k) |-> (u \o v)[i]]
  BY <1>1, <1>7
<1>10. \A i \in 1..(m + k) : (i <= m => i \in 1..m) /\ (~(i <= m) => i - m \in 1..k)
  BY <1>1
<1>11. \A i \in 1..(m + k) : (u \o v)[i] = <<kind, IF i <= m THEN a[i] ELSE b[i - m]>>
  BY <1>8, <1>10
<1> HIDE DEF u, v
<1>12. u \o v = [i \in 1..(m + k) |-> <<kind, IF i <= m THEN a[i] ELSE b[i - m]>>]
  BY <1>9, <1>11
<1> QED BY <1>3, <1>4, <1>12 DEF u, v

\* Compacting and showing pass the same gate.
LEMMA SameGate ==
  ASSUME NEW events \in Seq(Events)
  PROVE  /\ Rendering!Fold(NothingShown, events) \in Renderings
         /\ Rendering!Fold(NothingShown, events).state = Compacting!Fold(NothingCompacted, events).state
<1> DEFINE n == Len(events)
           Upto(k) == [i \in 1..k |-> events[i]]
           T == [k \in 0..n |-> {r \in Renderings : r.state = Compacting!Fold(NothingCompacted, Upto(k)).state}]
<1>1. n \in Nat /\ DOMAIN events = 1..n /\ \A i \in 1..n : events[i] \in Events
  OBVIOUS
<1>2. NothingShown \in T[0]
  <2> DEFINE none == Upto(0)
  <2>1. DOMAIN none = {}
    OBVIOUS
  <2>2. T[0] = {r \in Renderings : r.state = Compacting!Fold(NothingCompacted, none).state}
    BY <1>1
  <2> HIDE DEF none, T
  <2>3. Compacting!Fold(NothingCompacted, none) = NothingCompacted
    BY <2>1, Compacting!FoldEmpty
  <2>4. NothingShown.state = NothingCompacted.state
    BY DEF NothingShown, NothingCompacted
  <2> QED BY <2>2, <2>3, <2>4, NothingTyped
<1>3. ASSUME NEW k \in 0..(n - 1), NEW r \in T[k] PROVE RenderStep(r, events[k + 1]) \in T[k + 1]
  <2> DEFINE e == events[k + 1]
             acc == Compacting!Fold(NothingCompacted, Upto(k))
             u == Upto(k + 1)
  <2>1. k \in 0..n /\ k + 1 \in 0..n /\ e \in Events
    BY <1>1
  <2>2. r \in Renderings /\ r.state = acc.state
    BY <2>1
  <2>3. Compacting!Fold(NothingCompacted, u) = CompactStep(acc, e)
    BY <1>1, Compacting!FoldPrefix
  <2>4. T[k + 1] = {t \in Renderings : t.state = Compacting!Fold(NothingCompacted, u).state}
    BY <2>1
  <2> HIDE DEF e, acc, u, T
  <2>5. e.type = "text" => CompactStep(acc, e) = acc
    BY DEF CompactStep
  <2>6. e.type # "text" => CompactStep(acc, e).state = Applied(acc.state, e)
    BY DEF CompactStep
  <2>7. RenderStep(r, e).state = CompactStep(acc, e).state
    BY <2>1, <2>2, <2>5, <2>6, RenderStepTyped
  <2> QED BY <2>1, <2>2, <2>3, <2>4, <2>7, RenderStepTyped DEF e
<1> HIDE DEF T
<1>4. Rendering!Fold(NothingShown, events) \in T[n]
  BY <1>1, <1>2, <1>3, Rendering!FoldStepwise
<1>5. events = Upto(n)
  BY <1>1
<1> QED BY <1>1, <1>4, <1>5 DEF T

\* What is shown of a compact log with one more event is what is shown of the log
\* and then of the event.
LEMMA ShownOneMore ==
  ASSUME NEW acc, CompactAlready(acc), NEW e \in Events
  PROVE  Rendering!Fold(NothingShown, CompactStep(acc, e).out)
           = RenderStep(Rendering!Fold(NothingShown, acc.out), e)
<1> DEFINE r == Rendering!Fold(NothingShown, acc.out)
<1>1. /\ acc.state \in GateStates /\ acc.out \in Seq(Events) /\ acc.joinable \in BOOLEAN
      /\ Compacting!Fold(NothingCompacted, acc.out) = acc
  BY DEF CompactAlready, Compactions
<1>2. r \in Renderings /\ r.state = acc.state
  BY <1>1, SameGate
<1>3. CASE e.type = "text"
  BY <1>3 DEF CompactStep, RenderStep
<1>4. CASE e.type # "text" /\ CanJoin(acc, e)
  <2>1. /\ e.type = "reasoning" /\ Accepts(acc.state, e) /\ acc.joinable
        /\ Last(acc.out).turn = e.turn /\ Last(acc.out).attempt = e.attempt
    BY <1>4 DEF CanJoin
  <2>2. PICK q : BeforeLast(acc, q)
    BY <2>1 DEF CompactAlready
  <2> DEFINE l == Last(acc.out)
             f == Front(acc.out)
             j == Join(l, e)
             g == q.state
             before == Rendering!Fold(NothingShown, f)
  <2>3. /\ Len(acc.out) >= 1 /\ q = Compacting!Fold(NothingCompacted, f)
        /\ l.type = "reasoning" /\ Accepts(g, l) /\ acc.state = Applied(g, l) /\ g \in GateStates
    BY <2>2 DEF BeforeLast, Compactions
  <2>4. f \in Seq(Events) /\ l \in Events /\ f \o <<j>> = Append(f, j) /\ acc.out = Append(f, l)
    BY <1>1, <2>3, LastFacts
  <2>5. CompactStep(acc, e).out = Append(f, j)
    BY <1>4, <2>1, <2>4 DEF CompactStep
  <2>6. l.turn = e.turn /\ l.attempt = e.attempt
    BY <2>1
  <2> HIDE DEF l, f, g
  <2>7. /\ j \in Events /\ j.type = l.type /\ j.text = l.text \o e.text
        /\ Accepts(g, j) /\ Applied(g, j) = Applied(acc.state, e)
    <3>1. Accepts(Applied(g, l), e) /\ Applied(g, l) = acc.state
      BY <2>1, <2>3
    <3>2. g \in GateStates /\ Accepts(g, l) /\ l \in Events
      BY <2>3, <2>4
    <3>3. /\ Join(l, e) \in Events /\ Join(l, e).type = l.type /\ Join(l, e).turn = l.turn
          /\ Join(l, e).attempt = l.attempt /\ Join(l, e).text = l.text \o e.text
          /\ Accepts(g, Join(l, e)) /\ Applied(g, Join(l, e)) = Applied(Applied(g, l), e)
      BY <2>6, <3>1, <3>2, JoinGate
    <3> QED BY <3>1, <3>3
  <2> HIDE DEF j
  <2>8. before \in Renderings /\ before.state = g
    BY <2>3, <2>4, SameGate DEF g
  <2>9. r = RenderStep(before, l)
    BY <2>4, Rendering!FoldAppend
  <2>10. Rendering!Fold(NothingShown, Append(f, j)) = RenderStep(before, j)
    BY <2>4, <2>7, Rendering!FoldAppend
  <2> HIDE DEF before, r
  <2>11. RenderStep(before, l) = [state |-> acc.state, shown |-> before.shown \o Shown(l)]
    BY <2>3, <2>8 DEF RenderStep, Shown
  <2>12. RenderStep(before, j) = [state |-> Applied(acc.state, e), shown |-> before.shown \o Shown(j)]
    BY <2>3, <2>7, <2>8 DEF RenderStep, Shown
  <2>13. RenderStep(r, e) = [state |-> Applied(acc.state, e), shown |-> r.shown \o Shown(e)]
    BY <1>2, <2>1 DEF RenderStep, Shown
  <2>14. Shown(j) = Shown(l) \o Shown(e)
    <3>1. l.type = e.type
      BY <2>1, <2>3
    <3>2. j.type = e.type
      BY <2>7, <3>1
    <3> QED BY <2>4, <2>7, <3>1, <3>2, ShownJoined
  <2>15. (before.shown \o Shown(l)) \o Shown(e) = before.shown \o (Shown(l) \o Shown(e))
    <3> DEFINE S == Kinds \X Nat
               a == before.shown
               b == Shown(l)
               c == Shown(e)
    <3>1. a \in Seq(S)
      BY <2>8 DEF Renderings
    <3>2. b \in Seq(S) /\ c \in Seq(S)
      BY <2>4, EventFields DEF Shown
    <3> HIDE DEF S, a, b, c
    <3>3. (a \o b) \o c = a \o (b \o c)
      BY <3>1, <3>2
    <3> QED BY <3>3 DEF a, b, c
  <2>16. r.shown = before.shown \o Shown(l)
    BY <2>9, <2>11
  <2>17. r.shown \o Shown(e) = before.shown \o Shown(j)
    BY <2>14, <2>15, <2>16
  <2>18. RenderStep(r, e) = RenderStep(before, j)
    BY <2>12, <2>13, <2>17
  <2> QED BY <2>5, <2>10, <2>18 DEF r
<1>5. CASE e.type # "text" /\ ~CanJoin(acc, e)
  <2>1. CompactStep(acc, e).out = Append(acc.out, e)
    BY <1>5 DEF CompactStep
  <2>2. Rendering!Fold(NothingShown, Append(acc.out, e)) = RenderStep(r, e)
    BY <1>1, Rendering!FoldAppend
  <2> QED BY <2>1, <2>2
<1> QED BY <1>3, <1>4, <1>5

\* A chat replayed from the compact form of its log shows what it shows from the log.
LEMMA CompactShowsTheSame ==
  ASSUME NEW events \in Seq(Events)
  PROVE  Replay(Compact(events)) = Replay(events)
<1> DEFINE n == Len(events)
           Upto(k) == [i \in 1..k |-> events[i]]
           T == [k \in 0..n |-> {acc \in Compactions :
                   /\ CompactAlready(acc)
                   /\ Rendering!Fold(NothingShown, acc.out) = Rendering!Fold(NothingShown, Upto(k))}]
<1>1. n \in Nat /\ DOMAIN events = 1..n /\ \A i \in 1..n : events[i] \in Events
  OBVIOUS
<1>2. NothingCompacted \in T[0]
  <2> DEFINE none == Upto(0)
             empty == <<>>
  <2>1. DOMAIN none = {} /\ DOMAIN empty = {} /\ NothingCompacted.out = empty
    BY DEF NothingCompacted
  <2>2. T[0] = {acc \in Compactions : /\ CompactAlready(acc)
                  /\ Rendering!Fold(NothingShown, acc.out) = Rendering!Fold(NothingShown, none)}
    BY <1>1
  <2> HIDE DEF none, empty, T
  <2>3. Rendering!Fold(NothingShown, none) = NothingShown
    BY <2>1, Rendering!FoldEmpty
  <2>4. Rendering!Fold(NothingShown, empty) = NothingShown
    BY <2>1, Rendering!FoldEmpty
  <2> QED BY <2>1, <2>2, <2>3, <2>4, NothingTyped, NothingIsCompacted
<1>3. ASSUME NEW k \in 0..(n - 1), NEW acc \in T[k] PROVE CompactStep(acc, events[k + 1]) \in T[k + 1]
  <2> DEFINE e == events[k + 1]
             u == Upto(k + 1)
             s == Upto(k)
  <2>1. k \in 0..n /\ k + 1 \in 0..n /\ e \in Events
    BY <1>1
  <2>2. CompactAlready(acc) /\ Rendering!Fold(NothingShown, acc.out) = Rendering!Fold(NothingShown, s)
    BY <2>1
  <2>3. Rendering!Fold(NothingShown, u) = RenderStep(Rendering!Fold(NothingShown, s), e)
    <3>1. DOMAIN events = 1..n
      BY <1>1
    <3>2. n \in Nat
      BY <1>1
    <3> HIDE DEF n
    <3>3. Rendering!Fold(NothingShown, [i \in 1..(k + 1) |-> events[i]])
            = RenderStep(Rendering!Fold(NothingShown, [i \in 1..k |-> events[i]]), events[k + 1])
      BY <3>1, <3>2, Rendering!FoldPrefix
    <3> QED BY <3>3
  <2>4. T[k + 1] = {t \in Compactions : /\ CompactAlready(t)
                      /\ Rendering!Fold(NothingShown, t.out) = Rendering!Fold(NothingShown, u)}
    BY <2>1
  <2> HIDE DEF e, u, s, T
  <2>5. CompactAlready(CompactStep(acc, e))
    BY <2>1, <2>2, CompactedStep
  <2>6. Rendering!Fold(NothingShown, CompactStep(acc, e).out)
          = RenderStep(Rendering!Fold(NothingShown, acc.out), e)
    BY <2>1, <2>2, ShownOneMore
  <2>7. CompactStep(acc, e) \in Compactions
    BY <2>5 DEF CompactAlready
  <2> QED BY <2>2, <2>3, <2>4, <2>5, <2>6, <2>7 DEF e
<1> HIDE DEF T
<1>4. Compacting!Fold(NothingCompacted, events) \in T[n]
  BY <1>1, <1>2, <1>3, Compacting!FoldStepwise
<1>5. events = Upto(n)
  BY <1>1
<1> QED BY <1>1, <1>4, <1>5, CompactFolds, ReplayFolds DEF T

LEMMA UpdatedIsCompact ==
  ASSUME NEW log \in Seq(Events), NEW events \in Seq(Events)
  PROVE  Updated(log, events) = Compact(log \o events)
<1> DEFINE full == Compact(log \o events)
<1>1. log \o events \in Seq(Events)
  OBVIOUS
<1>2. full \in Seq(Events)
  BY <1>1, CompactGoesOn
<1> HIDE DEF full
<1>3. CASE IsPrefix(log, full)
  <2> DEFINE m == Len(log)
             n == Len(full)
             tail == SubSeq(full, m + 1, n)
             k == n - m
  <2>1. m \in Nat /\ n \in Nat /\ m <= n /\ \A i \in 1..m : full[i] = log[i]
    BY <1>2, <1>3 DEF IsPrefix
  <2>2. k \in Nat /\ n = m + k
    BY <2>1
  <2>3. Len(tail) = k /\ tail \in Seq(Events) /\ \A i \in 1..k : tail[i] = full[m + i]
    BY <1>2, <2>1
  <2> HIDE DEF tail, k
  <2>4. \A i \in 1..(m + k) : (log \o tail)[i] = IF i <= m THEN log[i] ELSE tail[i - m]
    BY <2>3
  <2>5. log \o tail = [i \in 1..(m + k) |-> (log \o tail)[i]]
    <3>1. log \o tail \in Seq(Events) /\ Len(log \o tail) = m + k
      <4>1. tail \in Seq(Events) /\ Len(tail) = k
        BY <2>3
      <4>2. log \o tail \in Seq(Events) /\ Len(log \o tail) = Len(log) + Len(tail)
        BY <4>1
      <4> QED BY <4>1, <4>2
    <3> DEFINE whole == log \o tail
    <3> HIDE DEF whole, m
    <3>2. \A w \in Seq(Events) : w = [i \in 1..Len(w) |-> w[i]]
      OBVIOUS
    <3>3. whole \in Seq(Events) /\ Len(whole) = m + k
      BY <3>1 DEF whole
    <3>4. whole = [i \in 1..(m + k) |-> whole[i]]
      BY <3>2, <3>3
    <3> QED BY <3>4 DEF whole
  <2>6. full = [i \in 1..(m + k) |-> full[i]]
    BY <1>2, <2>2
  <2> HIDE DEF m, n
  <2>7. \A i \in 1..(m + k) : (i <= m => i \in 1..m) /\ (~(i <= m) => i - m \in 1..k /\ m + (i - m) = i)
    BY <2>1, <2>2
  <2>8. \A i \in 1..(m + k) : (log \o tail)[i] = full[i]
    BY <2>1, <2>3, <2>4, <2>7
  <2>9. log \o tail = full
    BY <2>5, <2>6, <2>8
  <2> QED BY <1>3, <2>9 DEF Updated, full, tail, m, n
<1>4. CASE ~IsPrefix(log, full)
  BY <1>4 DEF Updated, full
<1> QED BY <1>3, <1>4

\* The stored log is the raw one until this CLI has written it, and then its compact form.
LogInv ==
  /\ raw \in Seq(Events) /\ new \in Seq(Events) /\ stored \in Seq(Events)
  /\ Replay(stored) = Replay(raw)
  /\ IF compacted THEN stored = Compact(raw) ELSE stored = raw

LEMMA LogStarts == LogInit => LogInv
BY DEF LogInit, LogInv

LEMMA LogKept == LogInv /\ [LogNext]_logVars => LogInv'
<1> SUFFICES ASSUME LogInv, [LogNext]_logVars PROVE LogInv'
  OBVIOUS
<1> USE DEF LogInv
<1>1. CASE UNCHANGED logVars
  BY <1>1 DEF logVars
<1>2. ASSUME NEW type \in Kinds, NEW t \in Turns \cup {NoTurn}, NEW s \in Sequences1 \cup {NoSequence},
             NEW a \in Attempts \cup {NoAttempt}, Record(type, t, s, a)
      PROVE  LogInv'
  <2> DEFINE e == Event(type, t, s, a)
  <2>1. new' = Append(new, e) /\ UNCHANGED raw /\ UNCHANGED stored /\ UNCHANGED compacted
    BY <1>2 DEF Record
  <2>2. s \in Nat /\ a \in Int
    BY LogAssumption DEF NoSequence, NoAttempt
  <2>3. <<Len(raw) + Len(new) + 1>> \in Seq(Nat)
    OBVIOUS
  <2>4. e \in Events
    BY <2>2, <2>3 DEF Event, Events
  <2> HIDE DEF e
  <2>5. new' \in Seq(Events)
    BY <2>1, <2>4
  <2> QED BY <2>1, <2>5
<1>3. CASE StoreTurn
  <2>1. /\ stored' = Updated(stored, new) /\ raw' = raw \o new /\ new' = <<>> /\ compacted' = TRUE
    BY <1>3 DEF StoreTurn
  <2>2. raw \o new \in Seq(Events)
    OBVIOUS
  <2>3. stored' = Compact(stored \o new)
    BY <2>1, UpdatedIsCompact
  <2>4. Compact(stored \o new) = Compact(raw \o new)
    BY CompactGoesOn
  <2>5. Compact(raw \o new) \in Seq(Events) /\ Replay(Compact(raw \o new)) = Replay(raw \o new)
    BY <2>2, CompactGoesOn, CompactShowsTheSame
  <2>6. new' \in Seq(Events)
    BY <2>1
  <2> QED BY <2>1, <2>2, <2>3, <2>4, <2>5, <2>6
<1>4. CASE StoreTurnRaw
  <2>1. /\ ~compacted /\ stored' = stored \o new /\ raw' = raw \o new /\ new' = <<>>
        /\ UNCHANGED compacted
    BY <1>4 DEF StoreTurnRaw
  <2>2. stored = raw /\ stored' = raw' /\ raw' \in Seq(Events) /\ new' \in Seq(Events)
    BY <2>1
  <2> QED BY <2>1, <2>2
<1>5. CASE RewriteLog
  <2>1. stored' = Compact(stored) /\ compacted' = TRUE /\ UNCHANGED raw /\ UNCHANGED new
    BY <1>5 DEF RewriteLog
  <2>2. Compact(stored) = Compact(raw)
    BY CompactGoesOn
  <2>3. Compact(raw) \in Seq(Events) /\ Replay(Compact(raw)) = Replay(raw)
    BY CompactGoesOn, CompactShowsTheSame
  <2> QED BY <2>1, <2>2, <2>3
<1> QED
  <2>1. \A k \in {"reasoning", "status", "text"} : k \in Kinds
    BY DEF Kinds
  <2> QED BY <1>1, <1>2, <1>3, <1>4, <1>5, <2>1 DEF LogNext

LEMMA ReplayKept == LogSpec => []ReplayIsUnchanged
<1>1. LogInv => ReplayIsUnchanged
  BY DEF LogInv, ReplayIsUnchanged
<1> QED BY <1>1, LogStarts, LogKept, PTL DEF LogSpec

----------------------------------------------------------------------------
(* The message count folded from the writes *)

Additions == INSTANCE Folding WITH Op <- AddStep
Keeps == INSTANCE Folding WITH Op <- KeepStep
BufferOps == INSTANCE Folding WITH Op <- BufferOp
BufferSteps == INSTANCE Folding WITH Op <- BufferStep
Increments == INSTANCE Folding WITH Op <- IncrementalStep

Buffers == [ids : Seq(MsgIds), exact : BOOLEAN]
Writings == {d \in [overwrite : BOOLEAN, ops : Seq(Ops), value : Seq(MsgIds)] :
               NoRepeat(d.ops) /\ IsInjective(d.value)}

LEMMA AddsFold == \A left, ops : FoldLeft(AddStep, left, ops) = Additions!Fold(left, ops)
BY DEF FoldLeft, MapThenFoldSet, Max, Additions!Fold, Additions!Unfolded, Additions!Largest

LEMMA KeepsFold == \A acc, ids : FoldLeft(KeepStep, acc, ids) = Keeps!Fold(acc, ids)
BY DEF FoldLeft, MapThenFoldSet, Max, Keeps!Fold, Keeps!Unfolded, Keeps!Largest

LEMMA BufferOpsFold == \A buffer, ops : FoldLeft(BufferOp, buffer, ops) = BufferOps!Fold(buffer, ops)
BY DEF FoldLeft, MapThenFoldSet, Max, BufferOps!Fold, BufferOps!Unfolded, BufferOps!Largest

LEMMA BufferStepsFold == \A buffer, ds : FoldLeft(BufferStep, buffer, ds) = BufferSteps!Fold(buffer, ds)
BY DEF FoldLeft, MapThenFoldSet, Max, BufferSteps!Fold, BufferSteps!Unfolded, BufferSteps!Largest

LEMMA IncrementsFold == \A msgs, ds : FoldLeft(IncrementalStep, msgs, ds) = Increments!Fold(msgs, ds)
BY DEF FoldLeft, MapThenFoldSet, Max, Increments!Fold, Increments!Unfolded, Increments!Largest

LEMMA OpFields ==
  \A o \in Ops : /\ o.op \in {"add", "remove", "clear"}
                 /\ o.op # "clear" => o.id \in MsgIds
BY DEF Ops

LEMMA AddsTyped ==
  ASSUME NEW ids \in Seq(MsgIds)
  PROVE  /\ AsAdds(ids) \in Seq(Ops) /\ DOMAIN AsAdds(ids) = 1..Len(ids)
         /\ \A i \in 1..Len(ids) : AsAdds(ids)[i].op = "add" /\ AsAdds(ids)[i].id = ids[i]
                                   /\ AsAdds(ids)[i] = [op |-> "add", id |-> ids[i]]
<1> DEFINE n == Len(ids)
           adds == AsAdds(ids)
<1>1. n \in Nat /\ DOMAIN ids = 1..n /\ \A i \in 1..n : ids[i] \in MsgIds
  OBVIOUS
<1>2. adds = [i \in 1..n |-> [op |-> "add", id |-> ids[i]]]
  BY <1>1 DEF AsAdds
<1>3. \A i \in 1..n : [op |-> "add", id |-> ids[i]] \in Ops
  BY <1>1 DEF Ops
<1> HIDE DEF n, adds
<1>4. adds \in Seq(Ops)
  BY <1>1, <1>2, <1>3
<1> QED BY <1>1, <1>2, <1>4 DEF n, adds

LEMMA AddStepTyped ==
  ASSUME NEW msgs \in Seq(MsgIds), NEW o \in Ops
  PROVE  AddStep(msgs, o) \in Seq(MsgIds)
<1>1. CASE o.op = "add" /\ o.id \notin IdsOf(msgs)
  <2>1. o.id \in MsgIds
    BY <1>1, OpFields
  <2>2. AddStep(msgs, o) = Append(msgs, o.id)
    BY <1>1 DEF AddStep
  <2> QED BY <2>1, <2>2
<1>2. CASE ~(o.op = "add" /\ o.id \notin IdsOf(msgs))
  BY <1>2 DEF AddStep
<1> QED BY <1>1, <1>2

LEMMA AddingTyped ==
  ASSUME NEW msgs \in Seq(MsgIds), NEW ops \in Seq(Ops)
  PROVE  Additions!Fold(msgs, ops) \in Seq(MsgIds)
<1> DEFINE T == Seq(MsgIds)
           S == Ops
           n == Len(ops)
<1>1. n \in Nat /\ DOMAIN ops = 1..n
  OBVIOUS
<1>2. \A i \in 1..n : ops[i] \in S
  OBVIOUS
<1>3. \A t \in T, e \in S : AddStep(t, e) \in T
  BY AddStepTyped
<1>4. msgs \in T
  OBVIOUS
<1> HIDE DEF T, S, n
<1>5. Additions!Fold(msgs, ops) \in T
  BY <1>1, <1>2, <1>3, <1>4, Additions!FoldType
<1> QED BY <1>5 DEF T

\* Where nothing is removed for good everything stays.
LEMMA AllKept ==
  ASSUME NEW msgs \in Seq(MsgIds)
  PROVE  FoldLeft(KeepStep, [kept |-> <<>>, gone |-> {}], msgs).kept = msgs
<1> DEFINE n == Len(msgs)
           base == [kept |-> <<>>, gone |-> {}]
           Upto(k) == [i \in 1..k |-> msgs[i]]
           T == [k \in 0..n |-> {[kept |-> Upto(k), gone |-> {}]}]
<1>1. n \in Nat /\ DOMAIN msgs = 1..n /\ \A i \in 1..n : msgs[i] \in MsgIds
  OBVIOUS
<1>2. base \in T[0]
  <2>1. Upto(0) = <<>>
    OBVIOUS
  <2>2. T[0] = {[kept |-> Upto(0), gone |-> {}]}
    BY <1>1
  <2> HIDE DEF T
  <2> QED BY <2>1, <2>2
<1>3. ASSUME NEW k \in 0..(n - 1), NEW t \in T[k] PROVE KeepStep(t, msgs[k + 1]) \in T[k + 1]
  <2> DEFINE s == Upto(k)
             e == msgs[k + 1]
  <2>1. k \in 0..n /\ k + 1 \in 0..n /\ k \in Nat /\ k + 1 \in 1..n /\ e \in MsgIds
    BY <1>1
  <2>2. t = [kept |-> s, gone |-> {}]
    BY <2>1
  <2>3. Append(s, e) = Upto(k + 1)
    <3>1. \A i \in 1..k : i \in 1..n
      BY <1>1, <2>1
    <3>2. s \in Seq(MsgIds) /\ Len(s) = k
      BY <1>1, <2>1, <3>1
    <3> HIDE DEF e
    <3>3. Append(s, e) = [i \in 1..(k + 1) |-> IF i = k + 1 THEN e ELSE s[i]]
      BY <2>1, <3>2
    <3> QED BY <2>1, <3>3 DEF e
  <2>4. T[k + 1] = {[kept |-> Upto(k + 1), gone |-> {}]}
    BY <2>1
  <2> HIDE DEF s, e, T
  <2>5. KeepStep(t, e) = [kept |-> Append(s, e), gone |-> {}]
    BY <2>2 DEF KeepStep
  <2> QED BY <2>3, <2>4, <2>5 DEF e
<1> HIDE DEF T
<1>4. Keeps!Fold(base, msgs) \in T[n]
  BY <1>1, <1>2, <1>3, Keeps!FoldStepwise
<1>5. Upto(n) = msgs
  BY <1>1
<1>6. T[n] = {[kept |-> msgs, gone |-> {}]}
  BY <1>1, <1>5 DEF T
<1> QED BY <1>4, <1>6, KeepsFold

\* One pass of additions alone.
LEMMA PlainPass ==
  ASSUME NEW msgs \in Seq(MsgIds), NEW ops \in Seq(Ops), \A i \in 1..Len(ops) : ops[i].op = "add"
  PROVE  /\ AddMessages(msgs, ops) = Additions!Fold(msgs, ops) /\ AddMessages(msgs, ops) \in Seq(MsgIds)
         /\ ~Rejected(msgs, ops)
<1>1. DOMAIN ops = 1..Len(ops)
  OBVIOUS
<1>2. Clears(ops) = {}
  BY <1>1 DEF Clears
<1>3. Removed(ops) = {}
  BY <1>1 DEF Removed
<1>4. ~RemovesAbsent(msgs, ops)
  BY <1>1 DEF RemovesAbsent
<1> DEFINE merged == Additions!Fold(msgs, ops)
<1>5. merged \in Seq(MsgIds)
  BY AddingTyped
<1>6. FoldLeft(AddStep, msgs, ops) = merged
  BY AddsFold
<1> HIDE DEF merged
<1>7. AddMessages(msgs, ops) = FoldLeft(KeepStep, [kept |-> <<>>, gone |-> {}], merged).kept
  BY <1>2, <1>3, <1>6 DEF AddMessages
<1> QED BY <1>4, <1>5, <1>7, AllKept DEF Rejected, merged

\* The distinct ids of a list, in the order of their first places.
Firsts(ids) == Additions!Fold(<<>>, AsAdds(ids))

LEMMA FirstsAreCounted ==
  ASSUME NEW ids \in Seq(MsgIds)
  PROVE  AddMessages(<<>>, AsAdds(ids)) = Firsts(ids) /\ Firsts(ids) \in Seq(MsgIds)
<1> DEFINE none == <<>>
           ops == AsAdds(ids)
<1>1. none \in Seq(MsgIds)
  OBVIOUS
<1>2. ops \in Seq(Ops) /\ Len(ops) = Len(ids)
  BY AddsTyped
<1>3. \A i \in 1..Len(ops) : ops[i].op = "add"
  BY <1>2, AddsTyped
<1> HIDE DEF none, ops
<1>4. AddMessages(none, ops) = Additions!Fold(none, ops) /\ AddMessages(none, ops) \in Seq(MsgIds)
  BY <1>1, <1>2, <1>3, PlainPass
<1> QED BY <1>4 DEF Firsts, none, ops

LEMMA AddsGoOn ==
  ASSUME NEW base, NEW a \in Seq(Ops), NEW b \in Seq(Ops)
  PROVE  Additions!Fold(base, a \o b) = Additions!Fold(Additions!Fold(base, a), b)
<1> DEFINE m == Len(a)
           k == Len(b)
           whole == a \o b
<1>1. m \in Nat /\ k \in Nat /\ DOMAIN a = 1..m /\ DOMAIN b = 1..k /\ DOMAIN whole = 1..(m + k)
  OBVIOUS
<1>2. \A i \in 1..m : whole[i] = a[i]
  OBVIOUS
<1>3. \A i \in 1..k : whole[m + i] = b[i]
  OBVIOUS
<1> HIDE DEF m, k, whole
<1>4. Additions!Fold(base, whole) = Additions!Fold(Additions!Fold(base, a), b)
  <2>1. DOMAIN a = 1..m
    BY <1>1
  <2>2. DOMAIN b = 1..k
    BY <1>1
  <2>3. DOMAIN whole = 1..(m + k)
    BY <1>1
  <2> QED BY <1>1, <1>2, <1>3, <2>1, <2>2, <2>3, Additions!FoldConcat
<1> QED BY <1>4 DEF whole

LEMMA FirstsGoOn ==
  ASSUME NEW a \in Seq(MsgIds), NEW b \in Seq(MsgIds)
  PROVE  Firsts(a \o b) = Additions!Fold(Firsts(a), AsAdds(b))
<1> DEFINE m == Len(a)
           k == Len(b)
           both == a \o b
           first == AsAdds(a)
           second == AsAdds(b)
           none == <<>>
<1>1. m \in Nat /\ k \in Nat /\ both \in Seq(MsgIds) /\ Len(both) = m + k
  OBVIOUS
<1>2. \A i \in 1..(m + k) : both[i] = IF i <= m THEN a[i] ELSE b[i - m]
  OBVIOUS
<1>3. first \in Seq(Ops) /\ second \in Seq(Ops)
  BY AddsTyped
<1>4. Len(first) = m /\ \A i \in 1..m : first[i] = [op |-> "add", id |-> a[i]]
  BY <1>3, AddsTyped
<1>5. Len(second) = k /\ \A i \in 1..k : second[i] = [op |-> "add", id |-> b[i]]
  BY <1>3, AddsTyped
<1>6. /\ AsAdds(both) \in Seq(Ops) /\ Len(AsAdds(both)) = m + k
      /\ \A i \in 1..(m + k) : AsAdds(both)[i] = [op |-> "add", id |-> both[i]]
  <2> HIDE DEF both
  <2> QED BY <1>1, AddsTyped
<1> HIDE DEF both, first, second, none
<1>7. /\ first \o second \in Seq(Ops) /\ Len(first \o second) = m + k
      /\ \A i \in 1..(m + k) : (first \o second)[i] = IF i <= m THEN first[i] ELSE second[i - m]
  <2>1. /\ first \o second \in Seq(Ops) /\ Len(first \o second) = Len(first) + Len(second)
        /\ \A i \in 1..(Len(first) + Len(second)) :
              (first \o second)[i] = IF i <= Len(first) THEN first[i] ELSE second[i - Len(first)]
    BY <1>3, ConcatProperties
  <2>2. Len(first) = m /\ Len(second) = k
    BY <1>4, <1>5
  <2> HIDE DEF m, k
  <2> QED BY <2>1, <2>2
<1> HIDE DEF m, k
<1>8. \A i \in 1..(m + k) : AsAdds(both)[i] = (first \o second)[i]
  <2> SUFFICES ASSUME NEW i \in 1..(m + k) PROVE AsAdds(both)[i] = (first \o second)[i]
    OBVIOUS
  <2>1. CASE i <= m
    <3>1. i \in 1..m
      BY <1>1, <2>1
    <3>2. both[i] = a[i] /\ (first \o second)[i] = first[i] /\ first[i] = [op |-> "add", id |-> a[i]]
      BY <1>2, <1>4, <1>7, <2>1, <3>1
    <3> QED BY <1>6, <3>2
  <2>2. CASE ~(i <= m)
    <3> DEFINE l == i - m
    <3>1. l \in 1..k
      BY <1>1, <2>2
    <3>2. both[i] = b[l] /\ (first \o second)[i] = second[l]
      BY <1>2, <1>7, <2>2
    <3> HIDE DEF l
    <3>3. second[l] = [op |-> "add", id |-> b[l]]
      BY <1>5, <3>1
    <3> QED BY <1>6, <3>2, <3>3
  <2> QED BY <2>1, <2>2
<1>9. \A p, q \in Seq(Ops) : Len(p) = Len(q) /\ (\A i \in 1..Len(p) : p[i] = q[i]) => p = q
  BY SeqEqual
<1>10. AsAdds(both) = first \o second
  BY <1>6, <1>7, <1>8, <1>9
<1>11. Additions!Fold(none, first \o second) = Additions!Fold(Additions!Fold(none, first), second)
  BY <1>3, AddsGoOn
<1> QED BY <1>10, <1>11 DEF Firsts, first, second, none, both

LEMMA FirstsOfDistinct ==
  ASSUME NEW ids \in Seq(MsgIds), IsInjective(ids)
  PROVE  Firsts(ids) = ids
<1> DEFINE n == Len(ids)
           ops == AsAdds(ids)
           none == <<>>
           Upto(k) == [i \in 1..k |-> ids[i]]
           T == [k \in 0..n |-> {Upto(k)}]
<1>1. n \in Nat /\ DOMAIN ids = 1..n /\ \A i \in 1..n : ids[i] \in MsgIds
  OBVIOUS
<1>2. DOMAIN ops = 1..n /\ \A i \in 1..n : ops[i] = [op |-> "add", id |-> ids[i]]
  BY AddsTyped
<1> HIDE DEF ops
<1>3. none \in T[0]
  <2>1. Upto(0) = <<>>
    OBVIOUS
  <2>2. T[0] = {Upto(0)}
    BY <1>1
  <2> HIDE DEF T
  <2> QED BY <2>1, <2>2
<1>4. ASSUME NEW k \in 0..(n - 1), NEW t \in T[k] PROVE AddStep(t, ops[k + 1]) \in T[k + 1]
  <2> DEFINE s == Upto(k)
             e == ids[k + 1]
  <2>1. k \in 0..n /\ k + 1 \in 0..n /\ k \in Nat /\ k + 1 \in 1..n /\ e \in MsgIds
        /\ \A i \in 1..k : i \in 1..n
    BY <1>1
  <2>2. t = s
    BY <2>1
  <2>3. ops[k + 1].op = "add" /\ ops[k + 1].id = e
    BY <1>2, <2>1
  <2>4. e \notin IdsOf(s)
    BY <1>1, <2>1 DEF IdsOf, IsInjective
  <2>5. Append(s, e) = Upto(k + 1)
    <3>1. s \in Seq(MsgIds) /\ Len(s) = k
      BY <1>1, <2>1
    <3> HIDE DEF e
    <3>2. Append(s, e) = [i \in 1..(k + 1) |-> IF i = k + 1 THEN e ELSE s[i]]
      BY <2>1, <3>1
    <3> QED BY <2>1, <3>2 DEF e
  <2>6. T[k + 1] = {Upto(k + 1)}
    BY <2>1
  <2> HIDE DEF s, e, T
  <2>7. AddStep(t, ops[k + 1]) = Append(s, e)
    BY <2>2, <2>3, <2>4 DEF AddStep
  <2> QED BY <2>5, <2>6, <2>7
<1> HIDE DEF T, none
<1>5. Additions!Fold(none, ops) \in T[n]
  BY <1>1, <1>2, <1>3, <1>4, Additions!FoldStepwise
<1>6. Upto(n) = ids
  BY <1>1
<1>7. T[n] = {ids}
  BY <1>1, <1>6 DEF T
<1> QED BY <1>5, <1>7 DEF Firsts, ops, none

SinceClear(ops, j, ids, c) ==
  /\ ops[c].op = "clear" /\ \A i \in (c + 1)..j : ops[i].op = "add"
  /\ ids = [i \in 1..(j - c) |-> ops[c + i].id]

\* What the buffer holds after the first j operations of a write, unless one of
\* them was a removal: the additions since the last clear.
Buffered(buffer, ops, j, b) ==
  /\ \A i \in 1..j : ops[i].op # "remove"
  /\ \/ /\ \A i \in 1..j : ops[i].op = "add"
        /\ b.ids = buffer.ids \o [i \in 1..j |-> ops[i].id]
     \/ \E c \in 1..j : SinceClear(ops, j, b.ids, c)

LEMMA AppendBehind ==
  \A x, t \in Seq(MsgIds), y \in MsgIds : Append(x \o t, y) = x \o Append(t, y)
<1> SUFFICES ASSUME NEW x \in Seq(MsgIds), NEW t \in Seq(MsgIds), NEW y \in MsgIds
             PROVE  Append(x \o t, y) = x \o Append(t, y)
  OBVIOUS
<1> DEFINE S == MsgIds
<1> DEFINE one == <<y>>
<1>1. one \in Seq(S) /\ x \o t \in Seq(S)
  OBVIOUS
<1>2. Append(x \o t, y) = (x \o t) \o one /\ Append(t, y) = t \o one
  BY <1>1, AppendIsConcat
<1> HIDE DEF one
<1>3. (x \o t) \o one = x \o (t \o one)
  BY <1>1, ConcatAssociative
<1> QED BY <1>2, <1>3

LEMMA BufferOpKept ==
  ASSUME NEW buffer \in Buffers, NEW ops \in Seq(Ops), NEW j \in Nat, j + 1 \in 1..Len(ops),
         NEW b \in Buffers, b.exact \/ Buffered(buffer, ops, j, b)
  PROVE  LET next == BufferOp(b, ops[j + 1]) IN
         next \in Buffers /\ (next.exact \/ Buffered(buffer, ops, j + 1, next))
<1> DEFINE o == ops[j + 1]
           next == BufferOp(b, o)
<1>1. /\ o \in Ops /\ b.ids \in Seq(MsgIds) /\ b.exact \in BOOLEAN /\ buffer.ids \in Seq(MsgIds)
  BY DEF Buffers
<1>2. \A i : i \in 1..(j + 1) <=> i \in 1..j \/ i = j + 1
  OBVIOUS
<1>3. CASE b.exact \/ o.op = "remove"
  <2>1. next = [b EXCEPT !.exact = TRUE]
    BY <1>3 DEF BufferOp
  <2>2. next \in Buffers /\ next.exact
    BY <2>1 DEF Buffers
  <2> QED BY <2>2
<1>4. CASE ~b.exact /\ o.op = "clear"
  <2>1. next = [b EXCEPT !.ids = <<>>]
    BY <1>4 DEF BufferOp
  <2> DEFINE none == <<>>
  <2>8. none \in Seq(MsgIds) /\ next = [b EXCEPT !.ids = none]
    BY <2>1
  <2> HIDE DEF none
  <2>9. next \in Buffers /\ next.ids = none
    BY <2>8 DEF Buffers
  <2>2. next \in Buffers /\ next.ids = <<>>
    BY <2>9 DEF none
  <2> HIDE DEF next, o
  <2>3. \A i \in 1..(j + 1) : ops[i].op # "remove"
    BY <1>2, <1>4 DEF Buffered, o
  <2>4. j + 1 \in 1..(j + 1) /\ ops[j + 1].op = "clear"
    BY <1>4 DEF o
  <2>5. \A i \in (j + 1 + 1)..(j + 1) : ops[i].op = "add"
    OBVIOUS
  <2>6. [i \in 1..(j + 1 - (j + 1)) |-> ops[j + 1 + i].id] = <<>>
    OBVIOUS
  <2>10. SinceClear(ops, j + 1, next.ids, j + 1)
    BY <2>2, <2>4, <2>5, <2>6 DEF SinceClear
  <2>7. Buffered(buffer, ops, j + 1, next)
    BY <2>3, <2>4, <2>10 DEF Buffered
  <2> QED BY <2>2, <2>7 DEF next, o
<1>5. CASE ~b.exact /\ o.op = "add"
  <2> DEFINE longer == Append(b.ids, o.id)
  <2>1. next = [b EXCEPT !.ids = longer]
    BY <1>5 DEF BufferOp
  <2>2. o.id \in MsgIds
    BY <1>1, <1>5, OpFields
  <2>3. longer \in Seq(MsgIds)
    BY <1>1, <2>2
  <2> HIDE DEF longer
  <2>4. next \in Buffers /\ next.ids = longer
    BY <2>1, <2>3 DEF Buffers
  <2> HIDE DEF next, o
  <2>5. \A i \in 1..(j + 1) : ops[i].op # "remove"
    BY <1>2, <1>5 DEF Buffered, o
  <2>6. CASE /\ \A i \in 1..j : ops[i].op = "add"
             /\ b.ids = buffer.ids \o [i \in 1..j |-> ops[i].id]
    <3> DEFINE told == [i \in 1..j |-> ops[i].id]
               more == [i \in 1..(j + 1) |-> ops[i].id]
    <3>1. \A i \in 1..(j + 1) : ops[i].op = "add"
      BY <1>2, <1>5, <2>6 DEF o
    <3>2. \A i \in 1..(j + 1) : ops[i] \in Ops
      OBVIOUS
    <3>3. \A i \in 1..(j + 1) : ops[i].id \in MsgIds
      BY <3>1, <3>2, OpFields
    <3>4. told \in Seq(MsgIds) /\ Len(told) = j
      BY <1>2, <3>3
    <3>5. Append(told, o.id) = more
      <4>1. Append(told, o.id) = [i \in 1..(j + 1) |-> IF i = j + 1 THEN o.id ELSE told[i]]
        BY <2>2, <3>4
      <4> QED BY <1>2, <4>1 DEF o
    <3> HIDE DEF told
    <3>6. Append(buffer.ids \o told, o.id) = buffer.ids \o Append(told, o.id)
      <4> DEFINE x == buffer.ids
                 y == o.id
      <4> HIDE DEF x, y
      <4>1. x \in Seq(MsgIds) /\ y \in MsgIds
        BY <1>1, <2>2 DEF x, y
      <4>2. Append(x \o told, y) = x \o Append(told, y)
        <5>1. x \in Seq(MsgIds)
          BY <4>1
        <5>2. y \in MsgIds
          BY <4>1
        <5>3. told \in Seq(MsgIds)
          BY <3>4
        <5> QED BY <5>1, <5>2, <5>3, AppendBehind
      <4> QED BY <4>2 DEF x, y
    <3>7. longer = buffer.ids \o more
      BY <2>6, <3>5, <3>6 DEF longer, told
    <3>8. Buffered(buffer, ops, j + 1, next)
      BY <2>4, <2>5, <3>1, <3>7 DEF Buffered
    <3> QED BY <2>4, <3>8 DEF next, o
  <2>7. CASE \E c \in 1..j : SinceClear(ops, j, b.ids, c)
    <3>1. PICK c \in 1..j : /\ ops[c].op = "clear" /\ \A i \in (c + 1)..j : ops[i].op = "add"
                           /\ b.ids = [i \in 1..(j - c) |-> ops[c + i].id]
      BY <2>7 DEF SinceClear
    <3> DEFINE k == j - c
    <3>2. c \in 1..(j + 1) /\ k \in Nat /\ j + 1 - c = k + 1 /\ c + (k + 1) = j + 1
      OBVIOUS
    <3>3. \A i \in (c + 1)..(j + 1) : ops[i].op = "add"
      BY <1>5, <3>1 DEF o
    <3>4. Len(b.ids) = k
      BY <3>1, <3>2
    <3> HIDE DEF k
    <3>5. longer = [i \in 1..(k + 1) |-> IF i = k + 1 THEN o.id ELSE b.ids[i]]
      BY <1>1, <2>2, <3>2, <3>4 DEF longer
    <3>6. \A i \in 1..(k + 1) : (IF i = k + 1 THEN o.id ELSE b.ids[i]) = ops[c + i].id
      <4>1. b.ids = [i \in 1..k |-> ops[c + i].id]
        BY <3>1 DEF k
      <4>2. \A i \in 1..(k + 1) : i = k + 1 \/ i \in 1..k
        BY <3>2
      <4>3. \A i \in 1..k : b.ids[i] = ops[c + i].id
        BY <4>1
      <4> QED BY <3>2, <4>2, <4>3 DEF o
    <3>7. longer = [i \in 1..(k + 1) |-> ops[c + i].id]
      BY <3>5, <3>6
    <3>8. next.ids = [i \in 1..(j + 1 - c) |-> ops[c + i].id]
      BY <2>4, <3>2, <3>7
    <3>9. SinceClear(ops, j + 1, next.ids, c)
      BY <3>1, <3>3, <3>8 DEF SinceClear
    <3>10. Buffered(buffer, ops, j + 1, next)
      BY <2>5, <3>2, <3>9 DEF Buffered
    <3> QED BY <2>4, <3>10 DEF next, o
  <2> QED BY <1>5, <2>6, <2>7 DEF Buffered
<1> QED BY <1>1, <1>3, <1>4, <1>5, OpFields

LEMMA BufferedAll ==
  ASSUME NEW buffer \in Buffers, NEW ops \in Seq(Ops)
  PROVE  LET b == BufferOps!Fold(buffer, ops) IN
         b \in Buffers /\ (b.exact \/ Buffered(buffer, ops, Len(ops), b))
<1> DEFINE n == Len(ops)
           T == [j \in 0..n |-> {b \in Buffers : b.exact \/ Buffered(buffer, ops, j, b)}]
<1>1. n \in Nat /\ DOMAIN ops = 1..n
  OBVIOUS
<1>2. buffer \in T[0]
  <2>1. T[0] = {b \in Buffers : b.exact \/ Buffered(buffer, ops, 0, b)}
    BY <1>1
  <2> DEFINE none == [i \in 1..0 |-> ops[i].id]
             x == buffer.ids
  <2>2. none = <<>>
    OBVIOUS
  <2>3. x \in Seq(MsgIds)
    BY DEF Buffers
  <2> HIDE DEF none, x
  <2>4. x \o none = x
    BY <2>2, <2>3
  <2>5. \A i : i \notin 1..0
    OBVIOUS
  <2>6. Buffered(buffer, ops, 0, buffer)
    BY <2>4, <2>5 DEF Buffered, none, x
  <2> HIDE DEF T
  <2> QED BY <2>1, <2>6
<1>3. ASSUME NEW j \in 0..(n - 1), NEW b \in T[j] PROVE BufferOp(b, ops[j + 1]) \in T[j + 1]
  <2>1. j \in 0..n /\ j + 1 \in 0..n /\ j \in Nat /\ j + 1 \in 1..n
    BY <1>1
  <2>2. b \in Buffers /\ (b.exact \/ Buffered(buffer, ops, j, b))
    BY <2>1
  <2>3. T[j + 1] = {t \in Buffers : t.exact \/ Buffered(buffer, ops, j + 1, t)}
    BY <2>1
  <2> HIDE DEF T
  <2> QED BY <2>1, <2>2, <2>3, BufferOpKept
<1> HIDE DEF T
<1>4. BufferOps!Fold(buffer, ops) \in T[n]
  BY <1>1, <1>2, <1>3, BufferOps!FoldStepwise
<1> QED BY <1>1, <1>4 DEF T

\* A write that removes no single id does to the buffer what it does to the messages.
LEMMA BufferedWrite ==
  ASSUME NEW buffer \in Buffers, NEW ops \in Seq(Ops), NoRepeat(ops)
  PROVE  LET b == BufferOps!Fold(buffer, ops)
             msgs == Firsts(buffer.ids) IN
         \/ b.exact
         \/ ~Rejected(msgs, ops) /\ AddMessages(msgs, ops) = Firsts(b.ids)
<1> DEFINE b == BufferOps!Fold(buffer, ops)
           x == buffer.ids
           msgs == Firsts(x)
           n == Len(ops)
<1>1. n \in Nat /\ DOMAIN ops = 1..n /\ (\A i \in 1..n : ops[i] \in Ops) /\ x \in Seq(MsgIds)
  BY DEF Buffers
<1>2. msgs \in Seq(MsgIds)
  BY <1>1, FirstsAreCounted
<1>3. b \in Buffers /\ (b.exact \/ Buffered(buffer, ops, n, b))
  BY BufferedAll
<1> HIDE DEF b, msgs, x, n
<1>4. CASE b.exact
  BY <1>4 DEF b
<1>5. CASE (\A i \in 1..n : ops[i].op = "add") /\ b.ids = x \o [i \in 1..n |-> ops[i].id]
  <2> DEFINE told == [i \in 1..n |-> ops[i].id]
  <2>1. \A i \in 1..n : ops[i].id \in MsgIds
    BY <1>1, <1>5, OpFields
  <2>2. told \in Seq(MsgIds) /\ Len(told) = n
    BY <1>1, <2>1
  <2>3. \A o \in Ops : o.op = "add" => o = [op |-> "add", id |-> o.id]
    BY DEF Ops
  <2>4. AsAdds(told) = [i \in 1..n |-> [op |-> "add", id |-> ops[i].id]]
    BY DEF AsAdds
  <2>5. ops = [i \in 1..n |-> ops[i]]
    BY <1>1
  <2>6. \A i \in 1..n : ops[i] = [op |-> "add", id |-> ops[i].id]
    BY <1>1, <1>5, <2>3
  <2>7. AsAdds(told) = ops
    BY <2>4, <2>5, <2>6
  <2> HIDE DEF told
  <2>8. Firsts(x \o told) = Additions!Fold(msgs, AsAdds(told))
    BY <1>1, <2>2, FirstsGoOn DEF msgs
  <2>9. AddMessages(msgs, ops) = Additions!Fold(msgs, ops) /\ ~Rejected(msgs, ops)
    BY <1>2, <1>5, PlainPass DEF n
  <2> QED BY <1>5, <2>7, <2>8, <2>9 DEF told, b, msgs, x
<1>6. CASE \E c \in 1..n : SinceClear(ops, n, b.ids, c)
  <2>1. PICK c \in 1..n : /\ ops[c].op = "clear" /\ \A i \in (c + 1)..n : ops[i].op = "add"
                         /\ b.ids = [i \in 1..(n - c) |-> ops[c + i].id]
    BY <1>6 DEF SinceClear
  <2> DEFINE tail == SubSeq(ops, c + 1, n)
             k == n - c
  <2>2. c \in Clears(ops)
    BY <1>1, <2>1 DEF Clears
  <2>3. \A i \in Clears(ops) : i <= c
    <3> SUFFICES ASSUME NEW i \in Clears(ops), ~(i <= c) PROVE FALSE
      OBVIOUS
    <3>1. i \in 1..n /\ ops[i].op = "clear"
      BY <1>1 DEF Clears
    <3>2. i \in (c + 1)..n
      BY <1>1, <3>1
    <3> QED BY <2>1, <3>1, <3>2
  <2>4. LastClear(ops) = c
    <3>1. \A i \in Clears(ops) : i \in Int
      BY <1>1 DEF Clears
    <3>2. \A i \in Clears(ops) : (\A j \in Clears(ops) : j <= i) => i = c
      BY <2>2, <2>3, <3>1
    <3> QED BY <2>2, <2>3, <3>2 DEF LastClear
  <2>5. k \in Nat /\ DOMAIN tail = 1..k /\ \A i \in 1..k : tail[i] = ops[c + i]
    BY <1>1
  <2>6. AddMessages(msgs, ops) = [i \in DOMAIN tail |-> tail[i].id]
    BY <2>2, <2>4 DEF AddMessages, n
  <2> HIDE DEF tail
  <2>7. AddMessages(msgs, ops) = [i \in 1..k |-> ops[c + i].id]
    BY <2>5, <2>6
  <2>8. b.ids = [i \in 1..k |-> ops[c + i].id]
    BY <2>1
  <2>9. \A i \in 1..k : c + i \in 1..n /\ c + i \in (c + 1)..n
    BY <1>1, <2>5
  <2>10. \A i \in 1..k : ops[c + i].op = "add" /\ ops[c + i].id \in MsgIds
    BY <1>1, <2>1, <2>9, OpFields
  <2> HIDE DEF k
  <2>11. b.ids \in Seq(MsgIds)
    BY <1>3 DEF Buffers
  <2>12. IsInjective(b.ids)
    <3>1. \A i, j \in 1..k : b.ids[i] = b.ids[j] => i = j
      <4> SUFFICES ASSUME NEW i \in 1..k, NEW j \in 1..k, b.ids[i] = b.ids[j], i # j PROVE FALSE
        OBVIOUS
      <4>1. c + i \in DOMAIN ops /\ c + j \in DOMAIN ops /\ c + i # c + j
        <5>1. c + i \in 1..n /\ c + j \in 1..n
          BY <2>9
        <5>2. i \in Int /\ j \in Int /\ c \in Int
          BY <1>1, <2>5
        <5>3. c + i # c + j
          BY <5>2
        <5> QED BY <1>1, <5>1, <5>3
      <4>2. ops[c + i].op = "add" /\ ops[c + j].op = "add"
        BY <2>10
      <4>3. ops[c + i].id = ops[c + j].id
        BY <2>8
      <4> QED BY <4>1, <4>2, <4>3 DEF NoRepeat
    <3> QED BY <2>8, <3>1 DEF IsInjective
  <2>13. Firsts(b.ids) = b.ids
    BY <2>11, <2>12, FirstsOfDistinct
  <2>14. ~Rejected(msgs, ops)
    BY <2>2 DEF Rejected
  <2> QED BY <2>7, <2>8, <2>13, <2>14 DEF b, msgs, x
<1> QED BY <1>3, <1>4, <1>5, <1>6 DEF Buffered, x

LEMMA BufferStepKept ==
  ASSUME NEW buffer \in Buffers, NEW d \in Writings, NEW msgs,
         buffer.exact \/ msgs = Firsts(buffer.ids)
  PROVE  LET next == BufferStep(buffer, d) IN
         next \in Buffers /\ (next.exact \/ IncrementalStep(msgs, d) = Firsts(next.ids))
<1> DEFINE next == BufferStep(buffer, d)
<1>1. /\ d.overwrite \in BOOLEAN /\ d.ops \in Seq(Ops) /\ d.value \in Seq(MsgIds)
      /\ NoRepeat(d.ops) /\ IsInjective(d.value)
  BY DEF Writings
<1>2. CASE buffer.exact
  BY <1>2 DEF BufferStep
<1>3. CASE ~buffer.exact /\ d.overwrite
  <2> DEFINE v == d.value
  <2>1. next = [buffer EXCEPT !.ids = v] /\ IncrementalStep(msgs, d) = v /\ v \in Seq(MsgIds)
    BY <1>1, <1>3 DEF BufferStep, IncrementalStep
  <2>2. Firsts(v) = v
    BY <1>1, FirstsOfDistinct
  <2> HIDE DEF v
  <2>3. next \in Buffers /\ next.ids = v
    BY <2>1 DEF Buffers
  <2> HIDE DEF next
  <2> QED BY <2>1, <2>2, <2>3 DEF next
<1>4. CASE ~buffer.exact /\ ~d.overwrite
  <2> DEFINE ops == d.ops
             b == BufferOps!Fold(buffer, ops)
  <2>1. next = b
    BY <1>4, BufferOpsFold DEF BufferStep
  <2>2. b \in Buffers
    BY <1>1, BufferedAll
  <2>3. b.exact \/ (~Rejected(msgs, ops) /\ AddMessages(msgs, ops) = Firsts(b.ids))
    BY <1>1, <1>4, BufferedWrite
  <2>4. ~Rejected(msgs, ops) => IncrementalStep(msgs, d) = AddMessages(msgs, ops)
    BY <1>4 DEF IncrementalStep
  <2> HIDE DEF b, ops, next
  <2> QED BY <2>1, <2>2, <2>3, <2>4 DEF next
<1> QED BY <1>1, <1>2, <1>3, <1>4

\* One pass over the buffer counts what the fold of one write at a time counts.
LEMMA CountsAgree ==
  ASSUME NEW ds \in Seq(Writings)
  PROVE  MessageCount(ds) = IncrementalCount(ds)
<1> DEFINE n == Len(ds)
           none == <<>>
           base == [ids |-> none, exact |-> FALSE]
           Upto(k) == [i \in 1..k |-> ds[i]]
           T == [k \in 0..n |-> {b \in Buffers : b.exact \/ Increments!Fold(none, Upto(k)) = Firsts(b.ids)}]
<1>1. n \in Nat /\ DOMAIN ds = 1..n /\ \A i \in 1..n : ds[i] \in Writings
  OBVIOUS
<1>2. none \in Seq(MsgIds) /\ IsInjective(none)
  BY DEF IsInjective
<1>3. base \in T[0]
  <2> DEFINE empty == Upto(0)
  <2>1. DOMAIN empty = {}
    OBVIOUS
  <2>2. T[0] = {b \in Buffers : b.exact \/ Increments!Fold(none, empty) = Firsts(b.ids)}
    BY <1>1
  <2> HIDE DEF empty, T, none
  <2>3. base \in Buffers /\ base.ids = none
    BY <1>2 DEF Buffers
  <2>4. Increments!Fold(none, empty) = none
    BY <2>1, Increments!FoldEmpty
  <2>5. Firsts(none) = none
    BY <1>2, FirstsOfDistinct
  <2> QED BY <2>2, <2>3, <2>4, <2>5
<1> HIDE DEF none, base
<1>4. ASSUME NEW k \in 0..(n - 1), NEW b \in T[k] PROVE BufferStep(b, ds[k + 1]) \in T[k + 1]
  <2> DEFINE d == ds[k + 1]
             msgs == Increments!Fold(none, Upto(k))
             longer == Upto(k + 1)
  <2>1. k \in 0..n /\ k + 1 \in 0..n /\ d \in Writings
    BY <1>1
  <2>2. b \in Buffers /\ (b.exact \/ msgs = Firsts(b.ids))
    BY <2>1
  <2>3. Increments!Fold(none, longer) = IncrementalStep(msgs, d)
    <3>1. DOMAIN ds = 1..n
      BY <1>1
    <3>2. n \in Nat
      BY <1>1
    <3> HIDE DEF n
    <3>3. Increments!Fold(none, [i \in 1..(k + 1) |-> ds[i]])
            = IncrementalStep(Increments!Fold(none, [i \in 1..k |-> ds[i]]), ds[k + 1])
      BY <3>1, <3>2, Increments!FoldPrefix
    <3> QED BY <3>3
  <2>4. T[k + 1] = {t \in Buffers : t.exact \/ Increments!Fold(none, longer) = Firsts(t.ids)}
    BY <2>1
  <2> HIDE DEF d, msgs, longer, T
  <2>5. /\ BufferStep(b, d) \in Buffers
        /\ BufferStep(b, d).exact \/ IncrementalStep(msgs, d) = Firsts(BufferStep(b, d).ids)
    BY <2>1, <2>2, BufferStepKept
  <2> QED BY <2>3, <2>4, <2>5 DEF d
<1> DEFINE last == BufferSteps!Fold(base, ds)
<1> HIDE DEF T
<1>5. last \in T[n]
  BY <1>1, <1>3, <1>4, BufferSteps!FoldStepwise
<1>6. Upto(n) = ds
  BY <1>1
<1>7. last \in Buffers /\ (last.exact \/ Increments!Fold(none, ds) = Firsts(last.ids))
  BY <1>1, <1>5, <1>6 DEF T
<1>8. FoldLeft(BufferStep, base, ds) = last /\ FoldLeft(IncrementalStep, none, ds) = Increments!Fold(none, ds)
  BY BufferStepsFold, IncrementsFold
<1> HIDE DEF last
<1>9. MessageCount(ds) = IF last.exact THEN IncrementalCount(ds)
                         ELSE VisibleCount(AddMessages(none, AsAdds(last.ids)))
  BY <1>8 DEF MessageCount, base, none
<1>10. IncrementalCount(ds) = VisibleCount(Increments!Fold(none, ds))
  BY <1>8 DEF IncrementalCount, none
<1>11. last.ids \in Seq(MsgIds)
  BY <1>7 DEF Buffers
<1>12. AddMessages(none, AsAdds(last.ids)) = Firsts(last.ids)
  BY <1>11, FirstsAreCounted DEF none
<1> QED BY <1>7, <1>9, <1>10, <1>12

LEMMA FoldKept == FoldSpec => []FoldsAgree
<1> DEFINE I == deltas \in Seq(Writings)
<1>1. FoldInit => I
  BY DEF FoldInit
<1>2. I /\ [FoldNext]_deltas => I'
  <2> SUFFICES ASSUME I, [FoldNext]_deltas PROVE I'
    OBVIOUS
  <2>1. CASE UNCHANGED deltas
    BY <2>1
  <2>2. CASE WriteMessages
    <3>1. PICK n \in 1..MaxOps : \E ops \in [1..n -> Ops] :
            /\ NoRepeat(ops)
            /\ deltas' = Append(deltas, [overwrite |-> FALSE, ops |-> ops, value |-> <<>>])
      BY <2>2 DEF WriteMessages
    <3>2. PICK ops \in [1..n -> Ops] :
            /\ NoRepeat(ops)
            /\ deltas' = Append(deltas, [overwrite |-> FALSE, ops |-> ops, value |-> <<>>])
      BY <3>1
    <3> DEFINE none == <<>>
               d == [overwrite |-> FALSE, ops |-> ops, value |-> none]
    <3>3. none \in Seq(MsgIds) /\ IsInjective(none)
      BY DEF IsInjective
    <3>4. ops \in Seq(Ops)
      BY FoldAssumption
    <3>5. deltas' = Append(deltas, d)
      BY <3>2
    <3> HIDE DEF none
    <3>6. d \in Writings
      BY <3>2, <3>3, <3>4 DEF Writings
    <3> HIDE DEF d
    <3> QED BY <3>5, <3>6
  <2>3. CASE OverwriteMessages
    <3>1. PICK n \in 0..MaxOps : \E ids \in [1..n -> MsgIds] :
            /\ IsInjective(ids)
            /\ deltas' = Append(deltas, [overwrite |-> TRUE, ops |-> <<>>, value |-> ids])
      BY <2>3 DEF OverwriteMessages
    <3>2. PICK ids \in [1..n -> MsgIds] :
            /\ IsInjective(ids)
            /\ deltas' = Append(deltas, [overwrite |-> TRUE, ops |-> <<>>, value |-> ids])
      BY <3>1
    <3> DEFINE none == <<>>
               d == [overwrite |-> TRUE, ops |-> none, value |-> ids]
    <3>3. none \in Seq(Ops) /\ NoRepeat(none)
      BY DEF NoRepeat
    <3>4. ids \in Seq(MsgIds)
      BY FoldAssumption
    <3>5. deltas' = Append(deltas, d)
      BY <3>2
    <3> HIDE DEF none
    <3>6. d \in Writings
      BY <3>2, <3>3, <3>4 DEF Writings
    <3> HIDE DEF d
    <3> QED BY <3>5, <3>6
  <2> QED BY <2>1, <2>2, <2>3 DEF FoldNext
<1>3. I => FoldsAgree
  BY CountsAgree DEF FoldsAgree
<1> QED BY <1>1, <1>2, <1>3, PTL DEF FoldSpec

----------------------------------------------------------------------------
(* What is read back *)

\* What is read back of a thread is what was written, for any processes, limits,
\* events and writes: a chat replayed from its compact log is the chat as it streamed,
\* however its turns were stored and rewritten (compact_events), the count in one pass
\* is that of the fold of one write at a time (_count_messages_from_deltas), and the
\* count the list remembers is that of the checkpoint it shows.
THEOREM WhatWasWrittenIsReadBack == MCSpec => []ReadsBackWhatWasWritten
<1>1. MCInit => Init /\ LogInit /\ FoldInit
  BY DEF MCInit
<1>2. [MCNext]_<<part, vars, logVars, deltas, contextVars>> => [Next]_vars
  BY DEF MCNext
<1>3. [MCNext]_<<part, vars, logVars, deltas, contextVars>> => [LogNext]_logVars
  BY DEF MCNext
<1>4. [MCNext]_<<part, vars, logVars, deltas, contextVars>> => [FoldNext]_deltas
  BY DEF MCNext
<1>5. MCSpec => Spec /\ LogSpec /\ FoldSpec
  BY <1>1, <1>2, <1>3, <1>4, PTL DEF MCSpec, Spec, LogSpec, FoldSpec
<1>6. ListIsFresh /\ ReplayIsUnchanged /\ FoldsAgree => ReadsBackWhatWasWritten
  BY DEF ReadsBackWhatWasWritten
<1> QED
  BY <1>5, <1>6, ListStaysFresh, ReplayKept, FoldKept, PTL

=============================================================================

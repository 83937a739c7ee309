-------------------------- MODULE TurnRecordProofs --------------------------
(***************************************************************************)
(* Theorems about what a session leaves behind: TurnDurability for any set *)
(* of calls and any number of turns and runs of a thread.                  *)
(***************************************************************************)
EXTENDS MCTurnRecord, SequenceTheorems, TLAPS

USE BoundsAssumption

----------------------------------------------------------------------------
(* Journals and the transcript *)

TurnEntries ==
  [fate : {"begun", "live", "superseded", "completed", "refused"},
   text : SUBSET (1..MaxRuns), request : Seq(Message)]

RunRecords ==
  [journal : Journal, resumed : BOOLEAN, original : Nat, previous : Journal,
   seed : SUBSET (1..MaxRuns), id : 0..MaxRuns]

\* The journal of turn r points at the request that opened it.
Good(j, ts) ==
  /\ j.root \in 1..Len(ts) /\ j.olen >= 1
  /\ j.olen = Len(ts[j.root].request) /\ ts[j.root].request[j.olen] = Human(j.query)

Sound(j, ts) == j = NoJournal \/ Good(j, ts)

Opens(s, t) == Len(s) <= Len(t) /\ \A i \in 1..Len(s) : t[i] = s[i]

LEMMA NoJournalTyped == NoJournal \in Journal /\ NoJournal.root = 0 /\ NoJournal.olen = 0
BY DEF NoJournal, Journal, Texts

LEMMA EmptyTyped ==
  /\ NoRun \in RunRecords /\ NoRun.journal = NoJournal /\ NoRun.previous = NoJournal
  /\ NoResult.journal = NoJournal /\ NoResult.additions = <<>>
BY NoJournalTyped DEF NoRun, NoResult, RunRecords

LEMMA HumanTyped == \A text \in Texts : Human(text) \in Message /\ Human(text).text = text
BY DEF Human, Message

\* What is said of a journal stays true while turns keep their requests.
LEMMA GoodStays ==
  ASSUME NEW j, NEW ts, NEW us, Len(ts) \in Nat, Len(us) \in Nat, Len(ts) <= Len(us),
         \A r \in 1..Len(ts) : us[r].request = ts[r].request
  PROVE  /\ Good(j, ts) => Good(j, us)
         /\ Sound(j, ts) => Sound(j, us)
<1>1. ASSUME Good(j, ts)
      PROVE  Good(j, us)
  <2>1. j.root \in 1..Len(ts) /\ j.root \in 1..Len(us)
    BY <1>1 DEF Good
  <2>2. us[j.root].request = ts[j.root].request
    BY <2>1
  <2>3. QED
    BY <1>1, <2>1, <2>2 DEF Good
<1>2. QED
  BY <1>1 DEF Sound

\* A good journal matches every transcript that its turn's request opens.
LEMMA GoodMatches ==
  ASSUME NEW j \in Journal, NEW messages \in Seq(Message), turns \in Seq(TurnEntries), Sound(j, turns),
         \A r \in 1..Len(turns) : Opens(turns[r].request, messages)
  PROVE  Matches(j, messages) <=> j # NoJournal
<1>1. ~Matches(NoJournal, messages)
  BY NoJournalTyped DEF Matches
<1>2. ASSUME Good(j, turns)
      PROVE  Matches(j, messages) /\ j # NoJournal
  <2>1. /\ j.root \in 1..Len(turns) /\ j.olen >= 1 /\ j.olen \in Nat
        /\ j.olen = Len(turns[j.root].request) /\ turns[j.root].request[j.olen] = Human(j.query)
    BY <1>2 DEF Good, Journal
  <2>2. Opens(turns[j.root].request, messages)
    BY <2>1
  <2>3. j.olen \in 1..j.olen
    BY <2>1
  <2>4. j.olen <= Len(messages) /\ messages[j.olen] = turns[j.root].request[j.olen]
    BY <2>1, <2>2, <2>3 DEF Opens
  <2>5. QED
    BY <2>1, <2>4, NoJournalTyped DEF Matches
<1>3. QED
  BY <1>1, <1>2 DEF Sound

\* Appending to the transcript keeps what opened it.
LEMMA OpensStays ==
  ASSUME NEW s \in Seq(Message), NEW t \in Seq(Message), NEW u \in Seq(Message), Opens(s, t)
  PROVE  Opens(s, t \o u) /\ \A m \in Message : Opens(s, Append(t, m))
<1>1. /\ Len(t \o u) = Len(t) + Len(u) /\ \A i \in 1..Len(t) : (t \o u)[i] = t[i]
  BY ConcatProperties
<1>2. \A m \in Message : Len(Append(t, m)) = Len(t) + 1 /\ \A i \in 1..Len(t) : Append(t, m)[i] = t[i]
  OBVIOUS
<1>3. Len(s) \in Nat /\ Len(t) \in Nat /\ Len(u) \in Nat
  OBVIOUS
<1>4. QED
  BY <1>1, <1>2, <1>3 DEF Opens

----------------------------------------------------------------------------
(* Type correctness *)

DiskTyped ==
  /\ ckpt \in [messages : Seq(Message), resume : BOOLEAN, journal : Journal]
  /\ sidecar \in Journal
  /\ proc \in {"down", "idle", "started", "preparing", "running", "returned"}
  /\ run \in RunRecords
  /\ result \in [additions : Seq(Message), journal : Journal]
  /\ runs \in 0..MaxRuns
  /\ turns \in Seq(TurnEntries) /\ Len(turns) <= MaxTurns
  /\ ran \subseteq (1..Len(turns)) \X Calls
  /\ lostCommit \in BOOLEAN
  /\ proc = "started" => runs >= 1
  /\ proc \in {"preparing", "running"} => run.id >= 1
  /\ proc = "started" /\ ~ckpt.resume =>
       ckpt.messages # <<>> /\ \E text \in Texts : ckpt.messages[Len(ckpt.messages)] = Human(text)

LEMMA LoadableTyped == DiskTyped => Loadable \in Journal
BY NoJournalTyped DEF DiskTyped, Loadable, LoadUnfinishedTurn

\* The fates after a save: the turns are the same ones.
LEMMA SavedTurns ==
  ASSUME DiskTyped
  PROVE  /\ Saved(turns) \in Seq(TurnEntries) /\ Len(Saved(turns)) = Len(turns)
         /\ \A r \in 1..Len(turns) :
              /\ Saved(turns)[r].request = turns[r].request
              /\ Saved(turns)[r].fate = IF r = Root THEN "live"
                                        ELSE IF r = run.previous.root THEN "superseded"
                                        ELSE turns[r].fate
<1> DEFINE entry(r) == IF r = Root THEN [turns[r] EXCEPT !.fate = "live"]
                       ELSE IF r = run.previous.root
                         THEN [turns[r] EXCEPT !.fate = "superseded", !.text = run.previous.text]
                       ELSE turns[r]
<1>1. turns \in Seq(TurnEntries) /\ DOMAIN turns = 1..Len(turns) /\ Len(turns) \in Nat
  BY DEF DiskTyped
<1>2. run.previous.text \in SUBSET (1..MaxRuns)
  BY DEF DiskTyped, RunRecords, Journal
<1>3. ASSUME NEW r \in 1..Len(turns)
      PROVE  /\ entry(r) \in TurnEntries /\ entry(r).request = turns[r].request
             /\ entry(r).fate = IF r = Root THEN "live"
                                ELSE IF r = run.previous.root THEN "superseded" ELSE turns[r].fate
  <2>1. turns[r] \in TurnEntries
    BY <1>1
  <2>2. QED
    BY <1>2, <2>1 DEF TurnEntries
<1>4. Saved(turns) = [r \in 1..Len(turns) |-> entry(r)]
  BY <1>1 DEF Saved
<1> HIDE DEF entry
<1>5. QED
  BY <1>1, <1>3, <1>4

LEMMA EndedTurns ==
  ASSUME DiskTyped, Root \in 1..Len(turns), NEW fate \in {"live", "completed", "refused"},
         turns' = [turns EXCEPT ![Root].fate = fate, ![Root].text = run.journal.text]
  PROVE  /\ turns' \in Seq(TurnEntries) /\ Len(turns') = Len(turns)
         /\ \A r \in 1..Len(turns) :
              /\ turns'[r].request = turns[r].request
              /\ turns'[r].fate = IF r = Root THEN fate ELSE turns[r].fate
<1> DEFINE entry == [turns[Root] EXCEPT !.fate = fate, !.text = run.journal.text]
<1>1. turns \in Seq(TurnEntries) /\ Len(turns) \in Nat /\ DOMAIN turns = 1..Len(turns)
  BY DEF DiskTyped
<1>2. run.journal.text \in SUBSET (1..MaxRuns)
  BY DEF DiskTyped, RunRecords, Journal
<1>a. turns[Root] \in TurnEntries
  BY <1>1
<1>3. entry \in TurnEntries /\ entry.request = turns[Root].request /\ entry.fate = fate
  BY <1>2, <1>a DEF TurnEntries
<1>4. turns' = [turns EXCEPT ![Root] = entry]
  OBVIOUS
<1> HIDE DEF entry
<1>5. \A e \in TurnEntries : LET us == [turns EXCEPT ![Root] = e]
                             IN  us \in Seq(TurnEntries) /\ Len(us) = Len(turns)
  BY <1>1, ExceptSeq, Zenon
<1>6. \A r \in 1..Len(turns) : turns'[r] = IF r = Root THEN entry ELSE turns[r]
  BY <1>1, <1>4
<1>7. QED
  BY <1>3, <1>4, <1>5, <1>6

LEMMA AdditionsTyped == DiskTyped => Additions \in Seq(Message)
<1> SUFFICES ASSUME DiskTyped PROVE Additions \in Seq(Message)
  OBVIOUS
<1>1. \A parts \in SUBSET (1..MaxRuns) : Answer(parts) \in Message
  BY DEF Answer, Message
<1>2. run.seed \in SUBSET (1..MaxRuns) /\ run.journal.text \cap {run.id} \in SUBSET (1..MaxRuns)
  BY DEF DiskTyped, RunRecords, Journal
<1>3. <<Answer(run.seed)>> \in Seq(Message) /\ <<Answer(run.journal.text \cap {run.id})>> \in Seq(Message)
  BY <1>1, <1>2
<1> HIDE DEF Answer
<1>4. QED
  BY <1>3, ConcatProperties DEF Additions

\* Every journal there is belongs to the turn it names; the run's own is the
\* one on disk once it was saved.
Records ==
  /\ \A r \in 1..Len(turns) : Opens(turns[r].request, ckpt.messages)
  /\ Sound(sidecar, turns) /\ Sound(ckpt.journal, turns) /\ Sound(result.journal, turns)
  /\ Sound(run.previous, turns)
  /\ proc \in {"preparing", "running"} =>
       Good(run.journal, turns) /\ run.original = run.journal.olen /\ run.previous.root # Root
  /\ proc = "running" => sidecar.root = Root /\ sidecar.done = run.journal.done

\* load_unfinished_turn prefers the sidecar; what it finds names a turn.
LEMMA LoadableFound ==
  ASSUME DiskTyped, Records
  PROVE  /\ Loadable = IF sidecar # NoJournal THEN sidecar ELSE ckpt.journal
         /\ Loadable \in Journal /\ Sound(Loadable, turns)
<1>1. sidecar \in Journal /\ ckpt.journal \in Journal /\ ckpt.messages \in Seq(Message)
      /\ turns \in Seq(TurnEntries)
  BY DEF DiskTyped
<1>2. /\ Matches(sidecar, ckpt.messages) <=> sidecar # NoJournal
      /\ Matches(ckpt.journal, ckpt.messages) <=> ckpt.journal # NoJournal
  BY <1>1, GoodMatches DEF Records
<1>3. Loadable = IF sidecar # NoJournal THEN sidecar ELSE ckpt.journal
  BY <1>2 DEF Loadable, LoadUnfinishedTurn
<1>4. QED
  BY <1>1, <1>3 DEF Records

LEMMA ResumesLoadable ==
  ToResume # NoJournal => ToResume = Loadable
BY DEF ToResume

LEMMA StartedTurn ==
  ASSUME DiskTyped, StartTurn
  PROVE  LET size == Len(ckpt.messages)
             root == Len(turns) + 1
             j == run'.journal
         IN  /\ size \in Nat \ {0} /\ ckpt.messages[size] = Human(j.query)
             /\ run' \in RunRecords /\ ~run'.resumed /\ run'.id = runs
             /\ j.root = root /\ j.olen = size /\ j.done = {} /\ run'.original = size
             /\ run'.previous = Loadable
             /\ turns' \in Seq(TurnEntries) /\ Len(turns') = root /\ root <= MaxTurns
             /\ turns'[root].request = ckpt.messages /\ turns'[root].fate = "begun"
             /\ \A r \in 1..Len(turns) : turns'[r] = turns[r]
<1> DEFINE size == Len(ckpt.messages)
           root == Len(turns) + 1
           j == [NoJournal EXCEPT !.root = root, !.olen = size, !.query = ckpt.messages[size].text]
           entry == [fate |-> "begun", text |-> {}, request |-> ckpt.messages]
<1>1. /\ proc = "started" /\ ~ckpt.resume /\ root <= MaxTurns /\ runs \in 0..MaxRuns
      /\ turns \in Seq(TurnEntries) /\ Len(turns) \in Nat /\ ckpt.messages \in Seq(Message)
      /\ turns' = Append(turns, entry)
      /\ run' = [NoRun EXCEPT !.journal = j, !.original = size, !.previous = Loadable, !.id = runs]
  BY DEF StartTurn, DiskTyped
<1>2. PICK text \in Texts : ckpt.messages # <<>> /\ ckpt.messages[size] = Human(text)
  BY <1>1 DEF DiskTyped
<1>3. size \in Nat \ {0} /\ Human(text) \in Message /\ ckpt.messages[size].text = text
  BY <1>1, <1>2, HumanTyped
<1>4. root \in 0..MaxTurns
  BY <1>1
<1>5. /\ j \in Journal /\ j.root = root /\ j.olen = size /\ j.query = text /\ j.done = {}
  BY <1>3, <1>4 DEF NoJournal, Journal
<1>6. entry \in TurnEntries /\ entry.request = ckpt.messages /\ entry.fate = "begun"
  BY <1>1 DEF TurnEntries
<1>7. Loadable \in Journal
  BY LoadableTyped
<1> HIDE DEF j, entry
<1>8. /\ run' \in RunRecords /\ ~run'.resumed /\ run'.id = runs /\ run'.journal = j /\ run'.original = size
      /\ run'.previous = Loadable
  <2>1. NoRun \in RunRecords /\ NoRun.resumed = FALSE
    BY EmptyTyped DEF NoRun
  <2>2. QED
    BY <1>1, <1>3, <1>5, <1>7, <2>1 DEF RunRecords
<1>9. /\ turns' \in Seq(TurnEntries) /\ Len(turns') = root /\ turns'[root] = entry
      /\ \A r \in 1..Len(turns) : turns'[r] = turns[r]
  BY <1>1, <1>6
<1>10. QED
  BY <1>1, <1>2, <1>3, <1>5, <1>6, <1>8, <1>9

LEMMA ResumedTurn ==
  ASSUME DiskTyped, Records, ResumeTurn
  PROVE  /\ run' \in RunRecords /\ run'.resumed /\ run'.id = runs /\ run'.journal = Loadable
         /\ run'.original = Loadable.olen /\ run'.previous = NoJournal
         /\ Good(Loadable, turns) /\ Loadable.root # 0
<1>1. ToResume = Loadable /\ Loadable # NoJournal
  BY ResumesLoadable DEF ResumeTurn
<1>2. Loadable \in Journal /\ Good(Loadable, turns) /\ runs \in 0..MaxRuns /\ Len(turns) \in Nat
  BY <1>1, LoadableFound DEF Sound, DiskTyped
<1>3. Seed(Loadable) \in SUBSET (1..MaxRuns)
  BY <1>2 DEF Seed, Journal
<1>4. run' = [journal |-> Loadable, resumed |-> TRUE, original |-> Loadable.olen,
              previous |-> NoJournal, seed |-> Seed(Loadable), id |-> runs]
  BY <1>1 DEF ResumeTurn, Original
<1>5. Loadable.olen \in Nat
  BY <1>2 DEF Journal
<1>6. Loadable.root # 0
  BY <1>2 DEF Good
<1>7. QED
  BY <1>2, <1>3, <1>4, <1>5, <1>6, NoJournalTyped DEF RunRecords

\* The journal of a run, as a step may change it.
LEMMA RunStep ==
  ASSUME DiskTyped, FirstPersist \/ StreamText \/ \E c \in Calls : RunTool(c)
  PROVE  /\ run' \in RunRecords /\ run'.journal.root = Root /\ run'.journal.olen = run.journal.olen
         /\ run'.journal.query = run.journal.query /\ run'.original = run.original
         /\ run'.previous = run.previous
<1>1. run \in RunRecords /\ run.journal \in Journal
  BY DEF DiskTyped, RunRecords
<1>2. ASSUME NEW j \in Journal, run' = [run EXCEPT !.journal = j], j.root = Root,
             j.olen = run.journal.olen, j.query = run.journal.query
      PROVE  /\ run' \in RunRecords /\ run'.journal.root = Root
             /\ run'.journal.olen = run.journal.olen
             /\ run'.journal.query = run.journal.query /\ run'.original = run.original
             /\ run'.previous = run.previous
  BY <1>1, <1>2 DEF RunRecords
<1>3. CASE FirstPersist
  <2> DEFINE j == [run.journal EXCEPT !.status = "running"]
  <2>1. j \in Journal /\ j.root = Root /\ j.olen = run.journal.olen /\ j.query = run.journal.query
    BY <1>1 DEF Journal, Root
  <2>2. run' = [run EXCEPT !.journal = j]
    BY <1>1, <1>3 DEF FirstPersist, RunRecords
  <2> HIDE DEF j
  <2>3. QED
    BY <1>2, <2>1, <2>2
<1>4. CASE StreamText
  <2> DEFINE j == [run.journal EXCEPT !.text = @ \cup {run.id}]
  <2>0. run.id \in 1..MaxRuns
    BY <1>1, <1>4 DEF DiskTyped, StreamText, RunRecords
  <2>1. j \in Journal /\ j.root = Root /\ j.olen = run.journal.olen /\ j.query = run.journal.query
    BY <1>1, <2>0 DEF Journal, Root
  <2>2. run' = [run EXCEPT !.journal = j]
    BY <1>1, <1>4 DEF StreamText, RunRecords
  <2> HIDE DEF j
  <2>3. QED
    BY <1>2, <2>1, <2>2
<1>5. ASSUME NEW c \in Calls, RunTool(c)
      PROVE  /\ run' \in RunRecords /\ run'.journal.root = Root
             /\ run'.journal.olen = run.journal.olen
             /\ run'.journal.query = run.journal.query /\ run'.original = run.original
             /\ run'.previous = run.previous
  <2> DEFINE j == [run.journal EXCEPT !.done = @ \cup {c}]
  <2>1. j \in Journal /\ j.root = Root /\ j.olen = run.journal.olen /\ j.query = run.journal.query
    BY <1>1 DEF Journal, Root
  <2>2. run' = [run EXCEPT !.journal = j]
    BY <1>1, <1>5 DEF RunTool, RunRecords
  <2> HIDE DEF j
  <2>3. QED
    BY <1>2, <2>1, <2>2
<1>6. QED
  BY <1>3, <1>4, <1>5

\* A turn that was begun keeps its request, and the transcript only grows.
Grows ==
  /\ turns' \in Seq(TurnEntries) /\ Len(turns) <= Len(turns') /\ Len(turns') <= MaxTurns
  /\ \A r \in 1..Len(turns) : turns'[r].request = turns[r].request
  /\ ckpt' \in [messages : Seq(Message), resume : BOOLEAN, journal : Journal]
  /\ \A s \in Seq(Message) : Opens(s, ckpt.messages) => Opens(s, ckpt'.messages)

LEMMA TurnsKept ==
  ASSUME DiskTyped, turns' = turns \/ turns' = Saved(turns)
  PROVE  /\ turns' \in Seq(TurnEntries) /\ Len(turns') = Len(turns)
         /\ Len(turns) \in Nat /\ Len(turns) <= MaxTurns
         /\ \A r \in 1..Len(turns) : turns'[r].request = turns[r].request
BY SavedTurns DEF DiskTyped

LEMMA GrowsOnly ==
  ASSUME DiskTyped, Records, [Next]_vars
  PROVE  Grows
<1>0. /\ ckpt \in [messages : Seq(Message), resume : BOOLEAN, journal : Journal]
      /\ result \in [additions : Seq(Message), journal : Journal]
      /\ turns \in Seq(TurnEntries) /\ Len(turns) \in Nat /\ Len(turns) <= MaxTurns
  BY DEF DiskTyped
<1>1. ASSUME ckpt' = ckpt, turns' = turns \/ turns' = Saved(turns)
      PROVE  Grows
  BY <1>0, <1>1, TurnsKept DEF Grows
<1>2. ASSUME NEW text \in Texts, Send(text)
      PROVE  Grows
  <2>1. /\ turns' = turns /\ ckpt' = [ckpt EXCEPT !.messages = Append(ckpt.messages, Human(text))]
    BY <1>0, <1>2 DEF Send, Invoke
  <2>2. Human(text) \in Message /\ <<>> \in Seq(Message)
    BY HumanTyped
  <2>3. \A s \in Seq(Message) : Opens(s, ckpt.messages) => Opens(s, Append(ckpt.messages, Human(text)))
    BY <1>0, <2>2, OpensStays
  <2>4. Append(ckpt.messages, Human(text)) \in Seq(Message)
    BY <1>0, <2>2
  <2>5. /\ ckpt' \in [messages : Seq(Message), resume : BOOLEAN, journal : Journal]
        /\ ckpt'.messages = Append(ckpt.messages, Human(text))
    BY <1>0, <2>1, <2>4
  <2>6. QED
    BY <1>0, <2>1, <2>3, <2>5 DEF Grows
<1>3. CASE SendResume
  <2>1. turns' = turns /\ ckpt' = [ckpt EXCEPT !.resume = TRUE]
    BY <1>3 DEF SendResume, Invoke
  <2>2. /\ ckpt' \in [messages : Seq(Message), resume : BOOLEAN, journal : Journal]
        /\ ckpt'.messages = ckpt.messages
    BY <1>0, <2>1
  <2>3. QED
    BY <1>0, <2>1, <2>2 DEF Grows
<1>4. CASE StartTurn
  <2>1. ckpt' = ckpt
    BY <1>4 DEF StartTurn
  <2>2. /\ turns' \in Seq(TurnEntries) /\ Len(turns') = Len(turns) + 1 /\ Len(turns') <= MaxTurns
        /\ \A r \in 1..Len(turns) : turns'[r] = turns[r]
    BY <1>4, StartedTurn
  <2>3. QED
    BY <1>0, <2>1, <2>2 DEF Grows
<1>5. CASE Complete \/ Refuse \/ Pause
  <2>1. PICK fate \in {"live", "completed", "refused"} :
            /\ proc = "running" /\ ckpt' = ckpt
            /\ turns' = [turns EXCEPT ![Root].fate = fate, ![Root].text = run.journal.text]
    BY <1>5 DEF Complete, Refuse, Pause, Ends
  <2>2. Root \in 1..Len(turns)
    BY <2>1 DEF Records, Good, Root
  <2>3. /\ turns' \in Seq(TurnEntries) /\ Len(turns') = Len(turns)
        /\ \A r \in 1..Len(turns) : turns'[r].request = turns[r].request
    BY <2>1, <2>2, EndedTurns
  <2>4. QED
    BY <1>0, <2>1, <2>3 DEF Grows
<1>6. CASE Commit
  <2>1. /\ turns' = turns
        /\ ckpt' = [messages |-> ckpt.messages \o result.additions, resume |-> FALSE,
                    journal |-> result.journal]
    BY <1>6 DEF Commit, Committed
  <2>2. ckpt.messages \o result.additions \in Seq(Message)
    BY <1>0, ConcatProperties
  <2>3. \A s \in Seq(Message) : Opens(s, ckpt.messages) => Opens(s, ckpt.messages \o result.additions)
    BY <1>0, OpensStays
  <2>4. QED
    BY <1>0, <2>1, <2>2, <2>3 DEF Grows
<1>7. CASE Open \/ RefuseResume \/ ResumeTurn \/ FirstPersist \/ StreamText \/ Interrupt \/ Kill
  BY <1>1, <1>7 DEF Open, RefuseResume, ResumeTurn, FirstPersist, StreamText, Interrupt, Kill
<1>8. ASSUME NEW c \in Calls, RunTool(c)
      PROVE  Grows
  BY <1>1, <1>8 DEF RunTool
<1>9. CASE UNCHANGED vars
  BY <1>1, <1>9 DEF vars
<1>10. QED
  BY <1>2, <1>3, <1>4, <1>5, <1>6, <1>7, <1>8, <1>9 DEF Next

LEMMA UnfinishedTyped ==
  \A j \in Journal : /\ Unfinished(j) \in Journal /\ Unfinished(j).root = j.root
                     /\ Unfinished(j).olen = j.olen /\ Unfinished(j).query = j.query
                     /\ Unfinished(j).done = j.done
BY DEF Unfinished, Journal

\* What a run adds to a well-typed state when the rest is known.
LEMMA TypedAgain ==
  ASSUME DiskTyped, Grows, sidecar' \in Journal,
         proc' \in {"down", "idle", "preparing", "running", "returned"},
         run' \in RunRecords, result' \in [additions : Seq(Message), journal : Journal],
         runs' = runs, ran' = ran, lostCommit' \in BOOLEAN,
         proc' \in {"preparing", "running"} => run'.id >= 1
  PROVE  DiskTyped'
<1>1. ran \subseteq (1..Len(turns)) \X Calls /\ runs \in 0..MaxRuns
      /\ turns \in Seq(TurnEntries)
  BY DEF DiskTyped
<1>2. Len(turns) \in Nat /\ Len(turns') \in Nat /\ Len(turns) <= Len(turns')
  BY <1>1 DEF Grows
<1>3. ran \subseteq (1..Len(turns')) \X Calls
  BY <1>1, <1>2
<1>4. QED
  BY <1>1, <1>3 DEF DiskTyped, Grows

LEMMA TypedNext ==
  ASSUME DiskTyped, Records, [Next]_vars
  PROVE  DiskTyped'
<1>0. /\ sidecar \in Journal /\ run \in RunRecords /\ run.journal \in Journal
      /\ result \in [additions : Seq(Message), journal : Journal]
      /\ ckpt \in [messages : Seq(Message), resume : BOOLEAN, journal : Journal]
      /\ runs \in 0..MaxRuns /\ lostCommit \in BOOLEAN
      /\ turns \in Seq(TurnEntries) /\ Len(turns) \in Nat
      /\ ran \subseteq (1..Len(turns)) \X Calls
      /\ proc \in {"down", "idle", "started", "preparing", "running", "returned"}
  BY DEF DiskTyped, RunRecords
<1>1. Grows
  BY GrowsOnly
<1>2. CASE Open \/ Interrupt \/ Kill
  <2>0. NoResult \in [additions : Seq(Message), journal : Journal]
    BY NoJournalTyped DEF NoResult
  <2>1. /\ proc' \in {"idle", "down"} /\ sidecar' \in {sidecar, Unfinished(run.journal)}
        /\ run' \in {run, NoRun} /\ result' \in {result, NoResult}
        /\ runs' = runs /\ ran' = ran
    BY <1>2 DEF Open, Interrupt, Kill
  <2>2. lostCommit' \in BOOLEAN
    BY <1>0, <1>2 DEF Open, Interrupt, Kill
  <2>3. QED
    BY <1>0, <1>1, <2>0, <2>1, <2>2, TypedAgain, UnfinishedTyped, EmptyTyped
<1>3. CASE SendResume \/ \E text \in Texts : Send(text)
  <2>1. /\ proc' = "started" /\ runs' = runs + 1 /\ runs + 1 \in 1..MaxRuns
        /\ UNCHANGED <<sidecar, run, result, turns, ran, lostCommit>>
    BY <1>0, <1>3 DEF SendResume, Send, Invoke
  <2>2. /\ ckpt' \in [messages : Seq(Message), resume : BOOLEAN, journal : Journal]
    BY <1>1 DEF Grows
  <2>3. ~ckpt'.resume => /\ ckpt'.messages # <<>>
                         /\ \E text \in Texts : ckpt'.messages[Len(ckpt'.messages)] = Human(text)
    <3>1. CASE SendResume
      BY <1>0, <3>1 DEF SendResume
    <3>2. ASSUME NEW text \in Texts, Send(text)
          PROVE  /\ ckpt'.messages # <<>>
                 /\ ckpt'.messages[Len(ckpt'.messages)] = Human(text)
      <4>1. ckpt'.messages = Append(ckpt.messages, Human(text)) /\ Human(text) \in Message
        BY <1>0, <3>2, HumanTyped DEF Send
      <4>2. ckpt.messages \in Seq(Message)
        BY <1>0
      <4>3. QED
        BY <4>1, <4>2
    <3>3. QED
      BY <1>3, <3>1, <3>2
  <2>4. QED
    BY <1>0, <1>1, <2>1, <2>2, <2>3 DEF DiskTyped, Grows
<1>4. CASE RefuseResume
  <2>1. /\ proc' = "returned" /\ run' \in RunRecords
        /\ result' = [additions |-> <<>>, journal |-> ckpt.journal]
        /\ UNCHANGED <<sidecar, runs, ran, lostCommit>>
    BY <1>4, EmptyTyped DEF RefuseResume
  <2>2. result' \in [additions : Seq(Message), journal : Journal]
    BY <1>0, <2>1
  <2>3. QED
    BY <1>0, <1>1, <2>1, <2>2, TypedAgain
<1>5. CASE ResumeTurn \/ StartTurn
  <2>1. run' \in RunRecords /\ run'.id = runs
    BY <1>5, ResumedTurn, StartedTurn
  <2>2. /\ proc' = "preparing" /\ runs >= 1
        /\ UNCHANGED <<sidecar, result, runs, ran, lostCommit>>
    BY <1>5 DEF ResumeTurn, StartTurn, DiskTyped
  <2>3. QED
    BY <1>0, <1>1, <2>1, <2>2, TypedAgain
<1>6. CASE FirstPersist \/ StreamText
  <2>1. run' \in RunRecords /\ run'.journal \in Journal /\ run'.id = run.id
    BY <1>0, <1>6, RunStep DEF FirstPersist, StreamText, RunRecords
  <2>2. /\ proc' = "running" /\ proc \in {"preparing", "running"}
        /\ sidecar' \in {sidecar, run'.journal} /\ UNCHANGED <<result, runs, ran, lostCommit>>
    BY <1>6 DEF FirstPersist, StreamText
  <2>3. run.id >= 1
    BY <2>2 DEF DiskTyped
  <2>4. QED
    BY <1>0, <1>1, <2>1, <2>2, <2>3, TypedAgain
<1>7. ASSUME NEW c \in Calls, RunTool(c)
      PROVE  DiskTyped'
  <2>1. run' \in RunRecords /\ run'.journal \in Journal /\ run'.id = run.id
    BY <1>0, <1>7, RunStep DEF RunTool, RunRecords
  <2>2. /\ proc' = "running" /\ proc = "running" /\ sidecar' = run'.journal
        /\ UNCHANGED <<ckpt, result, runs, turns, lostCommit>> /\ ran' = ran \cup {<<Root, c>>}
    BY <1>7 DEF RunTool
  <2>3. run.id >= 1 /\ Root \in 1..Len(turns)
    BY <2>2 DEF DiskTyped, Records, Good, Root
  <2>4. QED
    BY <1>0, <1>1, <2>1, <2>2, <2>3 DEF DiskTyped, Grows
<1>8. CASE Complete \/ Refuse \/ Pause
  <2>1. /\ proc' = "returned" /\ sidecar' \in {NoJournal, Unfinished(run.journal)}
        /\ result' = [additions |-> Additions, journal |-> sidecar']
        /\ UNCHANGED <<run, runs, ran, lostCommit>>
    BY <1>8 DEF Complete, Refuse, Pause, Ends
  <2>2. sidecar' \in Journal
    BY <1>0, <2>1, UnfinishedTyped, NoJournalTyped
  <2>3. result' \in [additions : Seq(Message), journal : Journal]
    BY <2>1, <2>2, AdditionsTyped
  <2>4. QED
    BY <1>0, <1>1, <2>1, <2>2, <2>3, TypedAgain
<1>9. CASE Commit
  <2>1. /\ proc' = "idle" /\ result' = NoResult /\ run' = NoRun
        /\ UNCHANGED <<sidecar, runs, ran, lostCommit>>
    BY <1>9 DEF Commit
  <2>2. result' \in [additions : Seq(Message), journal : Journal]
    BY <2>1, NoJournalTyped DEF NoResult
  <2>3. QED
    BY <1>0, <1>1, <2>1, <2>2, TypedAgain, EmptyTyped
<1>10. CASE UNCHANGED vars
  BY <1>10 DEF vars, DiskTyped
<1>11. QED
  BY <1>2, <1>3, <1>4, <1>5, <1>6, <1>7, <1>8, <1>9, <1>10 DEF Next

\* Growing keeps what is said of every journal and every request.
LEMMA SoundGrows ==
  ASSUME DiskTyped, Records, Grows
  PROVE  /\ \A j : (Good(j, turns) => Good(j, turns')) /\ (Sound(j, turns) => Sound(j, turns'))
         /\ \A r \in 1..Len(turns) : Opens(turns'[r].request, ckpt'.messages)
<1>1. turns \in Seq(TurnEntries) /\ turns' \in Seq(TurnEntries) /\ Len(turns) \in Nat
      /\ Len(turns') \in Nat /\ Len(turns) <= Len(turns')
  BY DEF DiskTyped, Grows
<1>2. \A r \in 1..Len(turns) : turns'[r].request = turns[r].request
  BY DEF Grows
<1>3. ASSUME NEW r \in 1..Len(turns)
      PROVE  Opens(turns'[r].request, ckpt'.messages)
  <2>1. turns[r] \in TurnEntries
    BY <1>1
  <2>2. turns[r].request \in Seq(Message)
    BY <2>1 DEF TurnEntries
  <2>3. QED
    BY <1>2, <2>2 DEF Records, Grows
<1>4. ASSUME NEW j
      PROVE  (Good(j, turns) => Good(j, turns')) /\ (Sound(j, turns) => Sound(j, turns'))
  BY <1>1, <1>2, GoodStays
<1>5. QED
  BY <1>3, <1>4

LEMMA RecordsAgain ==
  ASSUME DiskTyped, Records, Grows, Len(turns') = Len(turns),
         Sound(sidecar', turns), Sound(ckpt'.journal, turns), Sound(result'.journal, turns),
         Sound(run'.previous, turns),
         proc' \in {"preparing", "running"} =>
            /\ Good(run'.journal, turns) /\ run'.original = run'.journal.olen
            /\ run'.previous.root # run'.journal.root,
         proc' = "running" =>
            sidecar'.root = run'.journal.root /\ sidecar'.done = run'.journal.done
  PROVE  Records'
BY SoundGrows DEF Records, Root

\* A journal that differs in what it gathered is as good.
LEMMA GoodAlike ==
  ASSUME NEW j, NEW k, NEW ts, Good(j, ts), k.root = j.root, k.olen = j.olen, k.query = j.query
  PROVE  Good(k, ts)
BY DEF Good

LEMMA RecordsNext ==
  ASSUME DiskTyped, Records, [Next]_vars
  PROVE  Records'
<1>0. /\ Sound(sidecar, turns) /\ Sound(ckpt.journal, turns) /\ Sound(result.journal, turns)
      /\ Sound(run.previous, turns) /\ Sound(NoJournal, turns)
  BY DEF Records, Sound
<1>a. run \in RunRecords /\ run.journal \in Journal /\ Len(turns) \in Nat
      /\ ckpt \in [messages : Seq(Message), resume : BOOLEAN, journal : Journal]
      /\ turns \in Seq(TurnEntries)
  BY DEF DiskTyped, RunRecords
<1>1. Grows
  BY GrowsOnly
<1>b. proc \in {"preparing", "running"} =>
        /\ Good(run.journal, turns) /\ run.original = run.journal.olen
        /\ run.previous.root # run.journal.root
        /\ Good(Unfinished(run.journal), turns) /\ Sound(Unfinished(run.journal), turns)
  <2>1. proc \in {"preparing", "running"} =>
          /\ Good(run.journal, turns) /\ run.original = run.journal.olen
          /\ run.previous.root # run.journal.root
    BY DEF Records, Root
  <2>2. Good(run.journal, turns) => Good(Unfinished(run.journal), turns)
    BY <1>a, UnfinishedTyped, GoodAlike
  <2>3. QED
    BY <2>1, <2>2 DEF Sound
<1>2. CASE Open \/ Kill
  <2>1. /\ proc' \in {"idle", "down"} /\ UNCHANGED <<sidecar, ckpt, turns>>
        /\ result' \in {result, NoResult} /\ run' \in {run, NoRun}
    BY <1>2 DEF Open, Kill
  <2>2. QED
    BY <1>0, <1>1, <2>1, EmptyTyped, RecordsAgain
<1>3. CASE SendResume \/ \E text \in Texts : Send(text)
  <2>1. /\ proc' = "started" /\ UNCHANGED <<sidecar, run, result, turns>>
    BY <1>3 DEF SendResume, Send, Invoke
  <2>2. ckpt'.journal = ckpt.journal
    BY <1>3, <1>a DEF SendResume, Send
  <2>3. QED
    BY <1>0, <1>1, <2>1, <2>2, RecordsAgain
<1>4. CASE RefuseResume
  <2>1. /\ proc' = "returned" /\ run' = NoRun /\ result'.journal = ckpt.journal
        /\ UNCHANGED <<ckpt, sidecar, turns>>
    BY <1>4 DEF RefuseResume
  <2>2. QED
    BY <1>0, <1>1, <2>1, EmptyTyped, RecordsAgain
<1>5. CASE ResumeTurn
  <2>1. proc' = "preparing" /\ UNCHANGED <<ckpt, sidecar, result, turns>>
    BY <1>5 DEF ResumeTurn
  <2>2. /\ run'.journal = Loadable /\ run'.original = Loadable.olen /\ run'.previous = NoJournal
        /\ Good(Loadable, turns) /\ Loadable.root # 0
    BY <1>5, ResumedTurn
  <2>3. QED
    BY <1>0, <1>1, <2>1, <2>2, NoJournalTyped, RecordsAgain
<1>6. CASE StartTurn
  <2> DEFINE size == Len(ckpt.messages)
             root == Len(turns) + 1
  <2>1. /\ size \in Nat \ {0} /\ ckpt.messages[size] = Human(run'.journal.query)
        /\ run'.journal.root = root /\ run'.journal.olen = size /\ run'.original = size
        /\ run'.previous = Loadable
        /\ Len(turns') = root /\ turns'[root].request = ckpt.messages
    BY <1>6, StartedTurn
  <2>2. proc' = "preparing" /\ UNCHANGED <<ckpt, sidecar, result>>
    BY <1>6 DEF StartTurn
  <2>3. Sound(Loadable, turns) /\ Loadable.root # root
    <3>1. Sound(Loadable, turns)
      BY LoadableFound
    <3>2. Loadable.root \in 0..Len(turns)
      BY <1>a, <3>1, NoJournalTyped DEF Sound, Good
    <3>3. QED
      BY <1>a, <3>1, <3>2
  <2>4. Good(run'.journal, turns')
    <3>1. root \in 1..Len(turns')
      BY <1>a, <2>1
    <3>2. QED
      BY <2>1, <3>1 DEF Good
  <2>5. \A r \in 1..Len(turns') : Opens(turns'[r].request, ckpt'.messages)
    <3>1. Opens(ckpt.messages, ckpt.messages)
      BY <2>1 DEF Opens
    <3>2. \A r \in 1..Len(turns') : r \in 1..Len(turns) \/ r = root
      BY <1>a, <2>1
    <3>3. QED
      BY <1>1, <2>1, <2>2, <3>1, <3>2, SoundGrows
  <2>6. /\ Sound(sidecar, turns') /\ Sound(ckpt.journal, turns') /\ Sound(result.journal, turns')
        /\ Sound(Loadable, turns')
    BY <1>0, <1>1, <2>3, SoundGrows
  <2>7. QED
    BY <2>1, <2>2, <2>3, <2>4, <2>5, <2>6 DEF Records, Root
<1>7. CASE FirstPersist
  <2>1. /\ proc = "preparing" /\ proc' = "running" /\ sidecar' = run'.journal
        /\ turns' = Saved(turns) /\ UNCHANGED <<ckpt, result>>
    BY <1>7 DEF FirstPersist
  <2>2. /\ run'.journal.root = run.journal.root /\ run'.journal.olen = run.journal.olen
        /\ run'.journal.query = run.journal.query /\ run'.original = run.original
        /\ run'.previous = run.previous
    BY <1>7, RunStep DEF Root
  <2>3. Good(run'.journal, turns)
    BY <1>b, <2>1, <2>2, GoodAlike
  <2>4. Len(turns') = Len(turns)
    BY <2>1, SavedTurns
  <2>5. QED
    BY <1>0, <1>1, <1>b, <2>1, <2>2, <2>3, <2>4, RecordsAgain DEF Sound
<1>8. ASSUME proc = "running", proc' = "running", sidecar' \in {sidecar, run'.journal},
             sidecar' = sidecar => run'.journal.done = run.journal.done,
             UNCHANGED <<turns, ckpt, result>>,
             StreamText \/ \E c \in Calls : RunTool(c)
      PROVE  Records'
  <2>1. /\ run'.journal.root = run.journal.root /\ run'.journal.olen = run.journal.olen
        /\ run'.journal.query = run.journal.query /\ run'.original = run.original
        /\ run'.previous = run.previous
    BY <1>8, RunStep DEF Root
  <2>2. Good(run'.journal, turns)
    BY <1>b, <1>8, <2>1, GoodAlike
  <2>3. sidecar'.root = run'.journal.root /\ sidecar'.done = run'.journal.done
    BY <1>8, <2>1 DEF Records, Root
  <2>4. QED
    BY <1>0, <1>1, <1>b, <1>8, <2>1, <2>2, <2>3, RecordsAgain DEF Sound
<1>9. CASE StreamText
  <2>1. run'.journal.done = run.journal.done
    BY <1>9, <1>a DEF StreamText, RunRecords, Journal
  <2>2. QED
    BY <1>8, <1>9, <2>1 DEF StreamText
<1>10. ASSUME NEW c \in Calls, RunTool(c)
       PROVE  Records'
  <2>1. /\ proc = "running" /\ proc' = "running" /\ sidecar' = run'.journal
        /\ UNCHANGED <<turns, ckpt, result>>
    BY <1>10 DEF RunTool
  <2>2. sidecar' = sidecar => run'.journal.done = run.journal.done
    BY <2>1 DEF Records
  <2>3. QED
    BY <1>8, <1>10, <2>1, <2>2
<1>11. CASE Complete \/ Refuse \/ Pause
  <2>1. PICK fate \in {"live", "completed", "refused"} :
            turns' = [turns EXCEPT ![Root].fate = fate, ![Root].text = run.journal.text]
    BY <1>11 DEF Complete, Refuse, Pause, Ends
  <2>2. /\ proc = "running" /\ proc' = "returned" /\ UNCHANGED <<ckpt, run>>
        /\ sidecar' \in {NoJournal, Unfinished(run.journal)} /\ result'.journal = sidecar'
    BY <1>11 DEF Complete, Refuse, Pause, Ends
  <2>3. Root \in 1..Len(turns)
    BY <1>b, <2>2 DEF Good, Root
  <2>4. Len(turns') = Len(turns)
    BY <2>1, <2>3, EndedTurns
  <2>5. QED
    BY <1>0, <1>1, <1>b, <2>2, <2>4, RecordsAgain
<1>12. CASE Commit
  <2>1. /\ proc' = "idle" /\ result' = NoResult /\ run' = NoRun /\ UNCHANGED <<sidecar, turns>>
        /\ ckpt'.journal = result.journal
    BY <1>12 DEF Commit, Committed
  <2>2. QED
    BY <1>0, <1>1, <2>1, EmptyTyped, RecordsAgain
<1>13. CASE Interrupt
  <2>1. /\ proc \in {"preparing", "running"} /\ proc' = "idle" /\ run' = NoRun
        /\ sidecar' = Unfinished(run.journal) /\ turns' = Saved(turns) /\ UNCHANGED <<ckpt, result>>
    BY <1>13 DEF Interrupt
  <2>2. Len(turns') = Len(turns)
    BY <2>1, SavedTurns
  <2>3. QED
    BY <1>0, <1>1, <1>b, <2>1, <2>2, EmptyTyped, RecordsAgain
<1>14. CASE UNCHANGED vars
  BY <1>14 DEF vars, Records, Root
<1>15. QED
  BY <1>2, <1>3, <1>4, <1>5, <1>6, <1>7, <1>9, <1>10, <1>11, <1>12, <1>13, <1>14 DEF Next

DiskInv == DiskTyped /\ Records

LEMMA DiskStarts == Init => DiskInv
<1> SUFFICES ASSUME Init PROVE DiskInv
  OBVIOUS
<1>1. /\ ckpt = [messages |-> <<>>, resume |-> FALSE, journal |-> NoJournal]
      /\ turns = <<>> /\ Len(turns) = 0
  BY DEF Init
<1>2. NoResult \in [additions : Seq(Message), journal : Journal]
  BY NoJournalTyped DEF NoResult
<1>a. ckpt \in [messages : Seq(Message), resume : BOOLEAN, journal : Journal]
  BY <1>1, NoJournalTyped
<1>b. run \in RunRecords /\ sidecar \in Journal
      /\ result \in [additions : Seq(Message), journal : Journal]
  BY <1>2, NoJournalTyped, EmptyTyped DEF Init
<1>c. turns \in Seq(TurnEntries) /\ Len(turns) <= MaxTurns
  BY <1>1
<1>d. proc = "down" /\ runs = 0 /\ ran = {} /\ lostCommit = FALSE
  BY DEF Init
<1>e. 0 \in 0..MaxRuns
  BY BoundsAssumption
<1>3. DiskTyped
  BY <1>a, <1>b, <1>c, <1>d, <1>e DEF DiskTyped
<1>4. Records
  BY <1>1, EmptyTyped DEF Init, Records, Sound
<1>5. QED
  BY <1>3, <1>4 DEF DiskInv

LEMMA DiskKept == DiskInv /\ [Next]_vars => DiskInv'
BY TypedNext, RecordsNext DEF DiskInv

\* The thread's disk is well typed in every reachable state.
THEOREM DiskTypeCorrect == Spec => []TypeOK
<1>1. DiskInv => TypeOK
  <2> SUFFICES ASSUME DiskTyped PROVE TypeOK
    BY DEF DiskInv
  <2>1. run.journal \in Journal /\ run.previous \in Journal /\ run.original \in Nat
    BY DEF DiskTyped, RunRecords
  <2>2. turns \in Seq(TurnEntries) /\ Len(turns) \in Nat /\ Len(turns) <= MaxTurns
        /\ ran \subseteq (1..Len(turns)) \X Calls
    BY DEF DiskTyped
  <2>3. ran \subseteq (1..MaxTurns) \X Calls
    BY <2>2
  <2>4. result \in [additions : Seq(Message), journal : Journal]
    BY DEF DiskTyped
  <2>5. QED
    BY <2>1, <2>3, <2>4 DEF DiskTyped, TypeOK
<1>2. QED
  BY <1>1, DiskStarts, DiskKept, PTL DEF Spec

----------------------------------------------------------------------------
(* The unfinished turn is never lost and never comes back *)

\* Turn r is the only one that may be resumed, none if r is 0.
OnlyLive(r) == \A s \in 1..Len(turns) : turns[s].fate = "live" <=> s = r

\* A journal that lists every call of its turn that ran.
Knows(j) == \A c \in Calls : <<j.root, c>> \in ran => c \in j.done

\* What can be loaded is the live turn, at its latest; a run works from it.  After
\* the end of a turn, what the node returned says which turn is live, until it is
\* committed.
Fates ==
  /\ proc # "returned" => OnlyLive(Loadable.root) /\ Knows(Loadable)
  /\ proc = "preparing" =>
       IF run.resumed THEN run.journal = Loadable /\ run.previous = NoJournal
       ELSE run.previous = Loadable
  /\ proc \in {"preparing", "running"} => Knows(run.journal)
  /\ proc = "returned" =>
       /\ sidecar = result.journal /\ OnlyLive(result.journal.root) /\ Knows(result.journal)
       /\ run = NoRun => ckpt.journal = NoJournal

LEMMA LoadableIs ==
  DiskInv => /\ Loadable = IF sidecar # NoJournal THEN sidecar ELSE ckpt.journal
             /\ Loadable \in Journal /\ Sound(Loadable, turns)
BY LoadableFound DEF DiskInv

LEMMA LoadableNext ==
  ASSUME DiskInv, [Next]_vars
  PROVE  Loadable' = IF sidecar' # NoJournal THEN sidecar' ELSE ckpt'.journal
<1>1. DiskInv'
  BY DiskKept
<1>2. (DiskInv => Loadable = IF sidecar # NoJournal THEN sidecar ELSE ckpt.journal)'
  BY LoadableIs, PTL
<1>3. QED
  BY <1>1, <1>2

\* Which turn is live after the journal of the run is saved.
LEMMA SavedIsLive ==
  ASSUME DiskInv, Fates, proc \in {"preparing", "running"}
  PROVE  \A s \in 1..Len(turns) : Saved(turns)[s].fate = "live" <=> s = Root
<1>1. /\ Good(run.journal, turns) /\ run.previous.root # Root /\ OnlyLive(Loadable.root)
      /\ Len(turns) \in Nat
  BY DEF DiskInv, DiskTyped, Records, Fates
<1>2. \A s \in 1..Len(turns) :
        Saved(turns)[s].fate = IF s = Root THEN "live"
                               ELSE IF s = run.previous.root THEN "superseded" ELSE turns[s].fate
  BY SavedTurns DEF DiskInv
<1>3. \A s \in 1..Len(turns) \ {Root, run.previous.root} : turns[s].fate # "live"
  <2>1. CASE proc = "running"
    <3>1. sidecar.root = Root /\ Root \in 1..Len(turns)
      BY <1>1, <2>1 DEF DiskInv, Records, Good, Root
    <3>2. sidecar # NoJournal
      BY <1>1, <3>1, NoJournalTyped
    <3>3. QED
      BY <1>1, <3>1, <3>2, LoadableIs DEF OnlyLive
  <2>2. CASE proc = "preparing"
    <3>1. run.journal = Loadable \/ run.previous = Loadable
      BY <2>2 DEF Fates
    <3>2. QED
      BY <1>1, <3>1 DEF OnlyLive, Root
  <2>3. QED
    BY <2>1, <2>2
<1>4. QED
  BY <1>1, <1>2, <1>3

LEMMA FatesNext ==
  ASSUME DiskInv, Fates, ~lostCommit, ~lostCommit', [Next]_vars
  PROVE  Fates'
<1>0. /\ run \in RunRecords /\ run.journal \in Journal
      /\ ckpt \in [messages : Seq(Message), resume : BOOLEAN, journal : Journal]
      /\ turns \in Seq(TurnEntries) /\ Len(turns) \in Nat
      /\ ran \subseteq (1..Len(turns)) \X Calls
  BY DEF DiskInv, DiskTyped, RunRecords
<1>1. /\ Loadable = IF sidecar # NoJournal THEN sidecar ELSE ckpt.journal
      /\ Loadable' = IF sidecar' # NoJournal THEN sidecar' ELSE ckpt'.journal
      /\ Loadable \in Journal /\ Sound(Loadable, turns)
  BY LoadableIs, LoadableNext
<1>b. proc \in {"preparing", "running"} =>
        /\ Good(run.journal, turns) /\ Root \in 1..Len(turns) /\ Root # 0
        /\ Knows(run.journal)
  BY <1>0 DEF DiskInv, Records, Fates, Good, Root
\* Nothing about the turns changes, and no run is under way after the step.
<1>2. ASSUME UNCHANGED <<turns, ran, sidecar>>, ckpt'.journal = ckpt.journal,
             proc # "returned", proc' \in {"down", "idle", "started"}
      PROVE  Fates'
  <2>1. Loadable' = Loadable
    BY <1>1, <1>2
  <2>2. QED
    BY <1>2, <2>1 DEF Fates, OnlyLive, Knows
<1>3. CASE Open \/ SendResume \/ \E text \in Texts : Send(text)
  <2>1. /\ UNCHANGED <<turns, ran, sidecar>> /\ proc \in {"down", "idle"}
        /\ proc' \in {"idle", "started"}
    BY <1>3 DEF Open, SendResume, Send, Invoke
  <2>2. ckpt'.journal = ckpt.journal
    BY <1>0, <1>3 DEF Open, SendResume, Send
  <2>3. QED
    BY <1>2, <2>1, <2>2
<1>4. CASE Kill
  <2>1. UNCHANGED <<ckpt, turns, ran, sidecar>> /\ proc' = "down"
    BY <1>4 DEF Kill
  <2>2. CASE proc # "returned"
    BY <1>2, <2>1, <2>2
  <2>3. CASE proc = "returned"
    <3>1. run = NoRun \/ result.journal # NoJournal
      BY <1>4, <2>3 DEF Kill
    <3>2. Loadable' = result.journal
      BY <1>1, <2>1, <2>3, <3>1 DEF Fates
    <3>3. QED
      BY <2>1, <2>3, <3>2 DEF Fates, OnlyLive, Knows
  <2>4. QED
    BY <2>2, <2>3
<1>5. CASE RefuseResume
  <2>1. /\ proc = "started" /\ ckpt.resume /\ ToResume = NoJournal /\ proc' = "returned"
        /\ result'.journal = ckpt.journal /\ UNCHANGED <<ckpt, sidecar, turns, ran>>
    BY <1>5 DEF RefuseResume
  <2>2. Loadable = NoJournal
    BY <2>1 DEF ToResume
  <2>3. sidecar = NoJournal /\ ckpt.journal = NoJournal
    BY <1>1, <2>2
  <2>4. QED
    BY <2>1, <2>2, <2>3 DEF Fates, OnlyLive, Knows
<1>6. CASE ResumeTurn
  <2>1. /\ proc = "started" /\ proc' = "preparing"
        /\ UNCHANGED <<ckpt, sidecar, result, turns, ran>>
    BY <1>6 DEF ResumeTurn
  <2>2. run'.resumed /\ run'.journal = Loadable /\ run'.previous = NoJournal
    BY <1>6, ResumedTurn DEF DiskInv
  <2>3. Loadable' = Loadable
    BY <1>1, <2>1
  <2>4. QED
    BY <2>1, <2>2, <2>3 DEF Fates, OnlyLive, Knows
<1>7. CASE StartTurn
  <2>1. /\ proc = "started" /\ proc' = "preparing"
        /\ UNCHANGED <<ckpt, sidecar, result, ran>>
    BY <1>7 DEF StartTurn
  <2>2. /\ ~run'.resumed /\ run'.previous = Loadable /\ run'.journal.root = Len(turns) + 1
        /\ Len(turns') = Len(turns) + 1 /\ turns'[Len(turns) + 1].fate = "begun"
        /\ \A r \in 1..Len(turns) : turns'[r] = turns[r]
    BY <1>7, StartedTurn DEF DiskInv
  <2>3. Loadable' = Loadable
    BY <1>1, <2>1
  <2>4. Loadable.root \in 0..Len(turns)
    BY <1>0, <1>1, NoJournalTyped DEF Sound, Good
  <2>5. ASSUME NEW s \in 1..Len(turns')
        PROVE  turns'[s].fate = "live" <=> s = Loadable.root
    <3>1. CASE s = Len(turns) + 1
      BY <1>0, <2>2, <2>4, <3>1
    <3>2. CASE s # Len(turns) + 1
      <4>1. s \in 1..Len(turns)
        BY <1>0, <2>2, <3>2
      <4>2. QED
        BY <2>1, <2>2, <4>1 DEF Fates, OnlyLive
    <3>3. QED
      BY <3>1, <3>2
  <2>6. Knows(run'.journal)
    BY <1>0, <2>2 DEF Knows
  <2>7. QED
    BY <2>1, <2>2, <2>3, <2>5, <2>6 DEF Fates, OnlyLive, Knows
<1>8. CASE FirstPersist
  <2>1. /\ proc = "preparing" /\ proc' = "running" /\ sidecar' = run'.journal
        /\ run' = [run EXCEPT !.journal.status = "running"]
        /\ turns' = Saved(turns) /\ UNCHANGED <<ckpt, result, ran>>
    BY <1>8 DEF FirstPersist
  <2>2. run'.journal.root = Root /\ run'.journal.done = run.journal.done
    BY <1>0, <2>1 DEF RunRecords, Journal, Root
  <2>3. Loadable' = run'.journal
    BY <1>1, <1>b, <2>1, <2>2, NoJournalTyped
  <2>4. Len(turns') = Len(turns)
    BY <2>1, SavedTurns DEF DiskInv
  <2>5. OnlyLive(Root)'
    BY <2>1, <2>2, <2>4, SavedIsLive DEF OnlyLive, Root
  <2>6. Knows(run'.journal) /\ Knows(run.journal)'
    BY <1>b, <2>1, <2>2 DEF Knows, Root
  <2>7. QED
    BY <2>1, <2>2, <2>3, <2>5, <2>6 DEF Fates, Root
<1>9. ASSUME proc = "running", proc' = "running", sidecar' \in {sidecar, run'.journal},
             UNCHANGED <<turns, ckpt, result>>, run'.journal.root = Root,
             Knows(run.journal)', sidecar'.done = run'.journal.done
      PROVE  Fates'
  <2>1. sidecar.root = Root /\ sidecar'.root = Root
    BY <1>9 DEF DiskInv, Records
  <2>2. Loadable' = sidecar' /\ Loadable.root = Root
    BY <1>1, <1>9, <1>b, <2>1, NoJournalTyped
  <2>3. OnlyLive(Root)
    BY <1>9, <2>2 DEF Fates
  <2>4. OnlyLive(Loadable.root)'
    BY <1>9, <2>1, <2>2, <2>3 DEF OnlyLive
  <2>5. Knows(Loadable)'
    BY <1>9, <2>1, <2>2 DEF Knows
  <2>6. QED
    BY <1>9, <2>4, <2>5 DEF Fates
<1>10. CASE StreamText
  <2>1. /\ proc = "running" /\ proc' = "running" /\ sidecar' \in {sidecar, run'.journal}
        /\ UNCHANGED <<turns, ckpt, result, ran>>
    BY <1>10 DEF StreamText
  <2>2. run'.journal.root = Root /\ run'.journal.done = run.journal.done
    BY <1>0, <1>10 DEF StreamText, RunRecords, Journal, Root
  <2>3. Knows(run.journal)'
    BY <1>b, <2>1, <2>2 DEF Knows, Root
  <2>4. sidecar'.done = run'.journal.done
    BY <2>1, <2>2 DEF DiskInv, Records
  <2>5. QED
    BY <1>9, <2>1, <2>2, <2>3, <2>4
<1>11. ASSUME NEW c \in Calls, RunTool(c)
       PROVE  Fates'
  <2>1. /\ proc = "running" /\ proc' = "running" /\ sidecar' = run'.journal
        /\ UNCHANGED <<turns, ckpt, result>> /\ ran' = ran \cup {<<Root, c>>}
    BY <1>11 DEF RunTool
  <2>2. run'.journal.root = Root /\ run'.journal.done = run.journal.done \cup {c}
    BY <1>0, <1>11 DEF RunTool, RunRecords, Journal, Root
  <2>3. Knows(run.journal)'
    BY <1>b, <2>1, <2>2 DEF Knows, Root
  <2>4. QED
    BY <1>9, <2>1, <2>2, <2>3
<1>12. CASE Complete \/ Refuse \/ Pause
  <2>1. /\ proc = "running" /\ proc' = "returned" /\ UNCHANGED <<ckpt, run, ran>>
        /\ result'.journal = sidecar'
    BY <1>12 DEF Complete, Refuse, Pause, Ends
  <2>2. PICK fate \in {"live", "completed", "refused"} :
          /\ turns' = [turns EXCEPT ![Root].fate = fate, ![Root].text = run.journal.text]
          /\ sidecar' = IF fate = "live" THEN Unfinished(run.journal) ELSE NoJournal
    BY <1>12 DEF Complete, Refuse, Pause, Ends
  <2>3. /\ Len(turns') = Len(turns)
        /\ \A s \in 1..Len(turns) : turns'[s].fate = IF s = Root THEN fate ELSE turns[s].fate
    BY <1>b, <2>1, <2>2, EndedTurns DEF DiskInv
  <2>4. Loadable.root = Root
    <3>1. sidecar.root = Root
      BY <2>1 DEF DiskInv, Records
    <3>2. QED
      BY <1>1, <1>b, <2>1, <3>1, NoJournalTyped
  <2>5. \A s \in 1..Len(turns) : turns[s].fate = "live" <=> s = Root
    BY <2>1, <2>4 DEF Fates, OnlyLive
  <2>6. run # NoRun
    BY <1>b, <2>1, EmptyTyped, NoJournalTyped DEF Root
  <2>7. CASE fate = "live"
    <3>1. sidecar'.root = Root /\ sidecar'.done = run.journal.done
      BY <1>0, <2>2, <2>7, UnfinishedTyped DEF Root
    <3>2. Knows(sidecar)'
      BY <1>b, <2>1, <3>1 DEF Knows, Root
    <3>3. OnlyLive(sidecar.root)'
      BY <2>3, <2>5, <2>7, <3>1 DEF OnlyLive
    <3>4. QED
      BY <2>1, <2>6, <3>2, <3>3 DEF Fates
  <2>8. CASE fate # "live"
    <3>1. sidecar'.root = 0
      BY <2>2, <2>8, NoJournalTyped
    <3>2. Knows(sidecar)'
      BY <1>0, <2>1, <3>1 DEF Knows
    <3>3. OnlyLive(sidecar.root)'
      BY <1>0, <2>3, <2>5, <2>8, <3>1 DEF OnlyLive
    <3>4. QED
      BY <2>1, <2>6, <3>2, <3>3 DEF Fates
  <2>9. QED
    BY <2>7, <2>8
<1>13. CASE Commit
  <2>1. /\ proc = "returned" /\ proc' = "idle" /\ UNCHANGED <<sidecar, turns, ran>>
        /\ ckpt'.journal = result.journal
    BY <1>13 DEF Commit, Committed
  <2>2. Loadable' = result.journal
    BY <1>1, <2>1 DEF Fates
  <2>3. QED
    BY <2>1, <2>2 DEF Fates, OnlyLive, Knows
<1>14. CASE Interrupt
  <2>1. /\ proc \in {"preparing", "running"} /\ proc' = "idle"
        /\ sidecar' = Unfinished(run.journal) /\ turns' = Saved(turns) /\ UNCHANGED <<ckpt, ran>>
    BY <1>14 DEF Interrupt
  <2>2. sidecar'.root = Root /\ sidecar'.done = run.journal.done
    BY <1>0, <2>1, UnfinishedTyped DEF Root
  <2>3. Loadable' = sidecar'
    BY <1>1, <1>b, <2>1, <2>2, NoJournalTyped
  <2>4. Len(turns') = Len(turns)
    BY <2>1, SavedTurns DEF DiskInv
  <2>5. OnlyLive(Loadable.root)'
    BY <2>1, <2>2, <2>3, <2>4, SavedIsLive DEF OnlyLive
  <2>6. Knows(Loadable)'
    BY <1>b, <2>1, <2>2, <2>3 DEF Knows, Root
  <2>7. QED
    BY <2>1, <2>5, <2>6 DEF Fates
<1>15. CASE UNCHANGED vars
  BY <1>1, <1>15 DEF vars, Fates, OnlyLive, Knows
<1>16. QED
  BY <1>3, <1>4, <1>5, <1>6, <1>7, <1>8, <1>10, <1>11, <1>12, <1>13, <1>14, <1>15 DEF Next

DurableInv == DiskInv /\ (~lostCommit => Fates)

LEMMA DurableStarts == Init => DurableInv
<1> SUFFICES ASSUME Init PROVE Fates
  BY DiskStarts DEF DurableInv
<1>1. Loadable = NoJournal
  BY NoJournalTyped DEF Init, Loadable, LoadUnfinishedTurn
<1>2. QED
  BY <1>1, NoJournalTyped DEF Init, Fates, OnlyLive, Knows

LEMMA DurableKept == DurableInv /\ [Next]_vars => DurableInv'
<1> SUFFICES ASSUME DurableInv, [Next]_vars PROVE DurableInv'
  OBVIOUS
<1>1. lostCommit => lostCommit'
  BY DEF Next, Open, SendResume, Send, Invoke, RefuseResume, ResumeTurn, StartTurn, FirstPersist,
     StreamText, RunTool, Complete, Refuse, Pause, Ends, Commit, Interrupt, Kill, vars
<1>2. QED
  BY <1>1, DiskKept, FatesNext DEF DurableInv

\* Wherever a kill comes, the turn that was saved and did not end is the one
\* load_unfinished_turn finds, and no run takes up a turn that ended: for any
\* number of turns, runs and kills of a thread, as long as no process died
\* between the end of a turn and its commit.
THEOREM UnfinishedTurnsAreKept == Spec => []UnfinishedTurnIsKept
<1>1. DurableInv => UnfinishedTurnIsKept
  <2> SUFFICES ASSUME DurableInv, ~lostCommit PROVE UnfinishedTurnIsKept
    BY DEF UnfinishedTurnIsKept, SavedTurnIsLoadable, EndedTurnStaysEnded
  <2>1. DiskInv /\ Fates
    BY DEF DurableInv
  <2>2. SavedTurnIsLoadable
    <3>1. turns \in Seq(TurnEntries) /\ DOMAIN turns = 1..Len(turns)
      BY <2>1 DEF DiskInv, DiskTyped
    <3>2. QED
      BY <2>1, <3>1 DEF SavedTurnIsLoadable, Live, Fates, OnlyLive
  <2>3. EndedTurnStaysEnded
    <3> SUFFICES ASSUME run.resumed, proc = "preparing" PROVE turns[Root].fate = "live"
      BY DEF EndedTurnStaysEnded
    <3>1. run.journal = Loadable /\ OnlyLive(Loadable.root)
      BY <2>1 DEF Fates
    <3>2. Root \in 1..Len(turns)
      BY <2>1 DEF DiskInv, Records, Good, Root
    <3>3. QED
      BY <3>1, <3>2 DEF OnlyLive, Root
  <2>4. QED
    BY <2>2, <2>3 DEF UnfinishedTurnIsKept
<1>2. QED
  BY <1>1, DurableStarts, DurableKept, PTL DEF Spec

\* A run sends the request that opened its turn, whatever came to the transcript
\* since, and a resumed one knows every call of the turn that ever ran
\* (resume_payload): the journal's original_len still cuts where it did.
THEOREM ResumesAreFaithful == Spec => []ResumeIsFaithful
<1>1. DurableInv => ResumeIsFaithful
  <2> SUFFICES ASSUME DurableInv, proc \in {"preparing", "running"} PROVE ResumeIsFaithful
    BY DEF ResumeIsFaithful, ResumeKnowsItsCalls, ResumeSendsFirstRequest
  <2>1. DiskInv
    BY DEF DurableInv
  <2>2. ResumeKnowsItsCalls
    BY DEF DurableInv, Fates, Knows, ResumeKnowsItsCalls, Root
  <2>3. SubSeq(ckpt.messages, 1, run.original) = turns[Root].request
    <3>1. /\ Root \in 1..Len(turns) /\ run.original = Len(turns[Root].request)
          /\ Opens(turns[Root].request, ckpt.messages)
      BY <2>1 DEF DiskInv, Records, Good, Root
    <3>2. turns[Root] \in TurnEntries /\ ckpt.messages \in Seq(Message)
      BY <2>1, <3>1 DEF DiskInv, DiskTyped
    <3>3. turns[Root].request \in Seq(Message)
      BY <3>2 DEF TurnEntries
    <3> DEFINE s == turns[Root].request
               t == ckpt.messages
    <3>4. /\ s \in Seq(Message) /\ t \in Seq(Message) /\ Len(s) \in Nat /\ Len(t) \in Nat
          /\ Len(s) <= Len(t) /\ \A i \in 1..Len(s) : t[i] = s[i]
      BY <3>1, <3>2, <3>3 DEF Opens
    <3> HIDE DEF s, t
    <3>5. SubSeq(t, 1, Len(s)) = s
      <4>1. /\ SubSeq(t, 1, Len(s)) \in Seq(Message) /\ Len(SubSeq(t, 1, Len(s))) = Len(s)
            /\ \A i \in 1..Len(s) : SubSeq(t, 1, Len(s))[i] = s[i]
        BY <3>4
      <4>2. QED
        BY <3>4, <4>1, SeqEqual
    <3>6. QED
      BY <3>1, <3>5 DEF s, t
  <2>4. QED
    BY <2>2, <2>3 DEF ResumeIsFaithful, ResumeSendsFirstRequest
<1>2. QED
  BY <1>1, DurableStarts, DurableKept, PTL DEF Spec

----------------------------------------------------------------------------
(* The small files of a user: LocalState for any number of processes *)

Prefs == [theme : Themes \cup {NoTheme}, checked : BOOLEAN, announced : BOOLEAN]
SessionSteps == {"start", "validating", "login", "ready", "failed", "loggedOut"}
CallerSteps == {"idle", "waiting", "server", "bundled", "cancelled"}

PrefsTyped ==
  /\ prefs \in Prefs
  /\ DOMAIN saving = Processes
  /\ \A p \in Processes : saving[p] # Nothing => saving[p] \in Prefs
  /\ contended \in BOOLEAN /\ shown \in BOOLEAN
  /\ setting.theme \in Themes \cup {NoTheme}

\* Whoever is saving saves the user's theme, and is alone unless processes contended.
PrefsInv ==
  /\ prefs.announced => shown
  /\ \A p \in Processes : saving[p] # Nothing /\ saving[p].announced => shown
  /\ ~contended =>
       /\ (\A p \in Processes : saving[p] = Nothing) => prefs.theme = setting.theme
       /\ \A p \in Processes : saving[p] # Nothing =>
             /\ saving[p].theme = setting.theme
             /\ \A q \in Processes \ {p} : saving[q] = Nothing

\* The lock has one holder, who has read what is on file.
LockInv ==
  /\ DOMAIN remembering = Processes
  /\ LocksWork => \A p \in Processes : remembering[p] # Nothing =>
       /\ remembering[p].rows = recents
       /\ \A q \in Processes \ {p} : remembering[q] = Nothing

\* Keys are numbered as they are issued; what a process knew to be revoked when it
\* read its key is revoked still, so that a key issued since is not among it.
SessionInv ==
  /\ issued \in Nat /\ auth \in 0..issued /\ revoked \subseteq 1..issued
  /\ session \in [Processes -> [at : SessionSteps, key : 0..issued, dead : SUBSET revoked]]
  /\ \A p \in Processes :
       /\ session[p].at = "validating" => session[p].key # 0
       /\ session[p].at = "ready" => session[p].key \notin {0} \cup session[p].dead

\* Who waits has a request that runs; the server's list stays once it is there.
CatalogInv ==
  /\ catalog \in [models : {"bundled", "server"}, request : {"none", "sent"},
                  state : [Callers -> CallerSteps]]
  /\ \A c \in Callers : Waiting(c) => catalog.request = "sent"
  /\ (\E c \in Callers : catalog.state[c] = "server") => catalog.models = "server"

LocalInv == PrefsTyped /\ PrefsInv /\ LockInv /\ SessionInv /\ CatalogInv

LEMMA LocalStarts == LocalInit => LocalInv
<1> SUFFICES ASSUME LocalInit PROVE LocalInv
  OBVIOUS
<1>1. PrefsTyped /\ PrefsInv
  BY DEF LocalInit, PrefsTyped, PrefsInv, Prefs
<1>2. LockInv
  BY DEF LocalInit, LockInv
<1>3. SessionInv
  BY DEF LocalInit, SessionInv, SessionSteps
<1>4. CatalogInv
  BY DEF LocalInit, CatalogInv, NewCatalog, CallerSteps, Waiting
<1>5. QED
  BY <1>1, <1>2, <1>3, <1>4 DEF LocalInv

\* Without contention what a process loads is what the user set.
LEMMA LoadsAlone ==
  ASSUME PrefsInv, NEW p \in Processes, NEW changed, saving[p] = Nothing, Loads(p, changed),
         UNCHANGED setting
  PROVE  ~contended' => setting'.theme = prefs.theme
<1>1. contended' = (contended \/ \E q \in Processes \ {p} : saving[q] # Nothing)
  BY DEF Loads
<1>2. ~contended' => ~contended /\ \A q \in Processes : saving[q] = Nothing
  BY <1>1
<1>3. QED
  BY <1>2 DEF PrefsInv

\* A process that loads while nobody is saving writes the user's theme; one that
\* loads beside another marks the files as contended.
LEMMA LoadsKept ==
  ASSUME PrefsTyped, PrefsInv, NEW p \in Processes, NEW changed \in Prefs,
         saving[p] = Nothing, Loads(p, changed), UNCHANGED prefs,
         shown => shown', shown' \in BOOLEAN, changed.announced => shown',
         ~contended' => setting'.theme = changed.theme, setting'.theme \in Themes \cup {NoTheme}
  PROVE  PrefsTyped' /\ PrefsInv'
<1>1. /\ saving' = [saving EXCEPT ![p] = changed]
      /\ contended' = (contended \/ \E q \in Processes \ {p} : saving[q] # Nothing)
  BY DEF Loads
<1>2. /\ DOMAIN saving = Processes /\ DOMAIN saving' = Processes /\ saving'[p] = changed
      /\ \A q \in Processes \ {p} : saving'[q] = saving[q]
  BY <1>1 DEF PrefsTyped
<1>3. PrefsTyped'
  BY <1>1, <1>2 DEF PrefsTyped
<1>4. changed # Nothing
  BY DEF Prefs, Nothing
<1>5. (prefs.announced => shown)' /\ (\A q \in Processes : saving[q] # Nothing /\ saving[q].announced => shown)'
  BY <1>2 DEF PrefsInv
<1>6. ASSUME ~contended' PROVE \A q \in Processes \ {p} : saving'[q] = Nothing
  BY <1>1, <1>2, <1>6
<1>7. saving'[p] # Nothing
  BY <1>2, <1>4
<1>8. ASSUME ~contended', NEW q \in Processes, saving'[q] # Nothing
      PROVE  /\ saving'[q].theme = setting'.theme
             /\ \A r \in Processes \ {q} : saving'[r] = Nothing
  BY <1>2, <1>6, <1>8
<1>9. ~contended' => ~\A q \in Processes : saving'[q] = Nothing
  BY <1>7
<1>10. PrefsInv'
  BY <1>5, <1>8, <1>9 DEF PrefsInv
<1>11. QED
  BY <1>3, <1>10

LEMMA PrefsKept ==
  ASSUME PrefsTyped, PrefsInv, [Preferences]_prefVars
  PROVE  PrefsTyped' /\ PrefsInv'
<1>1. CASE UNCHANGED prefVars
  <2>1. /\ UNCHANGED prefs /\ UNCHANGED saving /\ UNCHANGED contended
        /\ UNCHANGED setting /\ UNCHANGED shown
    BY <1>1 DEF prefVars
  <2>2. PrefsTyped'
    BY <2>1 DEF PrefsTyped
  <2>3. PrefsInv'
    BY <2>1 DEF PrefsInv
  <2>4. QED
    BY <2>2, <2>3
<1>2. ASSUME NEW p \in Processes, NEW theme \in Themes, SaveTheme(p, theme)
      PROVE  PrefsTyped' /\ PrefsInv'
  <2> DEFINE changed == [prefs EXCEPT !.theme = theme]
  <2>1. /\ changed \in Prefs /\ changed.theme = theme /\ changed.announced = prefs.announced
    BY DEF PrefsTyped, Prefs
  <2>2. /\ saving[p] = Nothing /\ Loads(p, changed) /\ UNCHANGED prefs /\ UNCHANGED shown
        /\ setting'.theme = theme
    BY <1>2 DEF SaveTheme, Free
  <2>3. changed.announced => shown'
    BY <2>1, <2>2 DEF PrefsInv
  <2> HIDE DEF changed
  <2>4. QED
    BY <2>1, <2>2, <2>3, LoadsKept DEF PrefsTyped
<1>3. ASSUME NEW p \in Processes, SavePreferences(p)
      PROVE  PrefsTyped' /\ PrefsInv'
  <2>1. /\ saving[p] # Nothing /\ prefs' = saving[p] /\ saving' = [saving EXCEPT ![p] = Nothing]
        /\ UNCHANGED contended /\ UNCHANGED setting /\ UNCHANGED shown
    BY <1>3 DEF SavePreferences
  <2>2. /\ DOMAIN saving' = Processes /\ saving'[p] = Nothing
        /\ \A q \in Processes \ {p} : saving'[q] = saving[q]
    BY <2>1 DEF PrefsTyped
  <2>3. PrefsTyped'
    BY <2>1, <2>2 DEF PrefsTyped
  <2>4. PrefsInv'
    BY <2>1, <2>2 DEF PrefsInv
  <2>5. QED
    BY <2>3, <2>4
<1>4. ASSUME NEW p \in Processes, CheckStarts(p) \/ CheckCancelled(p)
      PROVE  PrefsTyped' /\ PrefsInv'
  <2>1. /\ UNCHANGED prefs /\ UNCHANGED saving /\ UNCHANGED contended
        /\ UNCHANGED setting /\ UNCHANGED shown
    BY <1>4 DEF CheckStarts, CheckCancelled
  <2>2. PrefsTyped'
    BY <2>1 DEF PrefsTyped
  <2>3. PrefsInv'
    BY <2>1 DEF PrefsInv
  <2>4. QED
    BY <2>2, <2>3
<1>5. ASSUME NEW p \in Processes, CheckFindsNothing(p)
      PROVE  PrefsTyped' /\ PrefsInv'
  <2> DEFINE changed == [prefs EXCEPT !.checked = TRUE]
  <2>1. /\ changed \in Prefs /\ changed.theme = prefs.theme /\ changed.announced = prefs.announced
    BY DEF PrefsTyped, Prefs
  <2>2. /\ saving[p] = Nothing /\ Loads(p, changed) /\ UNCHANGED prefs /\ UNCHANGED setting
        /\ UNCHANGED shown
    BY <1>5 DEF CheckFindsNothing, Free, Reloaded
  <2> HIDE DEF changed
  <2>3. ~contended' => setting'.theme = changed.theme
    BY <2>1, <2>2, LoadsAlone
  <2>4. QED
    BY <2>1, <2>2, <2>3, LoadsKept DEF PrefsTyped, PrefsInv
<1>6. ASSUME NEW p \in Processes, CheckShows(p)
      PROVE  PrefsTyped' /\ PrefsInv'
  <2> DEFINE changed == [prefs EXCEPT !.checked = TRUE, !.announced = TRUE]
  <2>1. changed \in Prefs /\ changed.theme = prefs.theme
    BY DEF PrefsTyped, Prefs
  <2>2. /\ saving[p] = Nothing /\ Loads(p, changed) /\ UNCHANGED prefs /\ UNCHANGED setting
        /\ shown' = TRUE
    BY <1>6 DEF CheckShows, Free, Reloaded
  <2> HIDE DEF changed
  <2>3. ~contended' => setting'.theme = changed.theme
    BY <2>1, <2>2, LoadsAlone
  <2>4. QED
    BY <2>1, <2>2, <2>3, LoadsKept DEF PrefsTyped
<1>7. QED
  BY <1>1, <1>2, <1>3, <1>4, <1>5, <1>6 DEF Preferences

\* A process reads the recent projects only under the lock, and writes them before
\* it gives the lock up.
LEMMA LockKept ==
  ASSUME LockInv, [RecentProjects]_projectVars
  PROVE  LockInv'
<1>1. CASE UNCHANGED projectVars
  BY <1>1 DEF projectVars, LockInv
<1>2. ASSUME NEW p \in Processes, NEW project \in Projects, ReadProjects(p, project)
      PROVE  LockInv'
  <2> DEFINE read == [rows |-> recents, project |-> project]
  <2>1. /\ remembering' = [remembering EXCEPT ![p] = read] /\ UNCHANGED recents
        /\ LocksWork => \A q \in Processes : remembering[q] = Nothing
        /\ read.rows = recents
    BY <1>2 DEF ReadProjects, MayLock
  <2> HIDE DEF read
  <2>2. /\ DOMAIN remembering' = Processes /\ remembering'[p] = read
        /\ \A q \in Processes \ {p} : remembering'[q] = remembering[q]
    BY <2>1 DEF LockInv
  <2>3. QED
    BY <2>1, <2>2 DEF LockInv
<1>3. ASSUME NEW p \in Processes, WriteProjects(p) \/ KilledWhileRemembering(p)
      PROVE  LockInv'
  <2>1. remembering[p] # Nothing /\ remembering' = [remembering EXCEPT ![p] = Nothing]
    BY <1>3 DEF WriteProjects, KilledWhileRemembering
  <2>2. /\ DOMAIN remembering' = Processes /\ remembering'[p] = Nothing
        /\ \A q \in Processes \ {p} : remembering'[q] = remembering[q]
    BY <2>1 DEF LockInv
  <2>3. LocksWork => \A q \in Processes : remembering'[q] = Nothing
    BY <2>1, <2>2 DEF LockInv
  <2>4. QED
    BY <2>2, <2>3 DEF LockInv
<1>4. QED
  BY <1>1, <1>2, <1>3 DEF RecentProjects

\* The step of one session: the others keep what they have, and more may be revoked.
LEMMA SessionStep ==
  ASSUME SessionInv, NEW p \in Processes, NEW s,
         session' = [session EXCEPT ![p] = s], issued' \in Nat, issued' >= issued,
         auth' \in 0..issued', UNCHANGED revoked,
         s \in [at : SessionSteps, key : 0..issued', dead : SUBSET revoked],
         s.at = "validating" => s.key # 0,
         s.at = "ready" => s.key \notin {0} \cup s.dead
  PROVE  SessionInv'
<1>1. 0..issued \subseteq 0..issued' /\ 1..issued \subseteq 1..issued'
  BY DEF SessionInv
<1>2. session' \in [Processes -> [at : SessionSteps, key : 0..issued', dead : SUBSET revoked']]
  <2>1. \A q \in Processes :
          session[q] \in [at : SessionSteps, key : 0..issued', dead : SUBSET revoked]
    BY <1>1 DEF SessionInv
  <2>2. QED
    BY <2>1 DEF SessionInv
<1>3. \A q \in Processes : session'[q] = IF q = p THEN s ELSE session[q]
  BY DEF SessionInv
<1>4. QED
  BY <1>1, <1>2, <1>3 DEF SessionInv

LEMMA AtStep ==
  ASSUME SessionInv, NEW p \in Processes, NEW at \in SessionSteps, NEW key, At(p, at, key),
         issued' \in Nat, issued' >= issued, auth' \in 0..issued', UNCHANGED revoked,
         key \in 0..issued', at # "validating",
         at = "ready" => key \notin {0} \cup session[p].dead
  PROVE  SessionInv'
<1> DEFINE s == [session[p] EXCEPT !.at = at, !.key = key]
<1>1. session[p] \in [at : SessionSteps, key : 0..issued, dead : SUBSET revoked]
  BY DEF SessionInv
<1>2. session[p].dead \in SUBSET revoked
  BY <1>1
<1>3. /\ s \in [at : SessionSteps, key : 0..issued', dead : SUBSET revoked]
      /\ s.at = at /\ s.key = key /\ s.dead = session[p].dead
  <2> DEFINE t == session[p]
             u == [t EXCEPT !.at = at]
  <2>1. t \in [at : SessionSteps, key : 0..issued, dead : SUBSET revoked]
    BY <1>1
  <2> HIDE DEF t
  <2>2. /\ u \in [at : SessionSteps, key : 0..issued, dead : SUBSET revoked]
        /\ u.at = at /\ u.dead = t.dead
    BY <2>1
  <2>3. [t EXCEPT !.at = at, !.key = key] = [u EXCEPT !.key = key]
    BY <2>1
  <2> HIDE DEF u
  <2>4. /\ [u EXCEPT !.key = key] \in [at : SessionSteps, key : 0..issued', dead : SUBSET revoked]
        /\ [u EXCEPT !.key = key].at = at /\ [u EXCEPT !.key = key].key = key
        /\ [u EXCEPT !.key = key].dead = t.dead
    BY <2>2
  <2>5. QED
    BY <2>3, <2>4 DEF s, t
<1>4. session' = [session EXCEPT ![p] = s]
  BY DEF At
<1> HIDE DEF s
<1>5. QED
  BY <1>3, <1>4, SessionStep

\* Some server that has accepted a key has not revoked it before, and a new key is
\* larger than all that were.
LEMMA SessionKept ==
  ASSUME SessionInv, [Credential]_authVars
  PROVE  SessionInv'
<1>1. CASE UNCHANGED authVars
  BY <1>1 DEF authVars, SessionInv
<1>2. ASSUME NEW p \in Processes, LoadCredential(p)
      PROVE  SessionInv'
  <2> DEFINE s == [at |-> IF auth = 0 THEN "login" ELSE "validating", key |-> auth, dead |-> revoked]
  <2>1. /\ session' = [session EXCEPT ![p] = s]
        /\ UNCHANGED auth /\ UNCHANGED issued /\ UNCHANGED revoked
    BY <1>2 DEF LoadCredential
  <2>2. /\ s \in [at : SessionSteps, key : 0..issued, dead : SUBSET revoked]
        /\ s.at = "validating" => s.key # 0
        /\ s.at # "ready"
    BY DEF SessionInv, SessionSteps
  <2> HIDE DEF s
  <2>3. QED
    BY <2>1, <2>2, SessionStep DEF SessionInv
<1>3. ASSUME NEW p \in Processes, NEW reached \in BOOLEAN, Validate(p, reached)
      PROVE  SessionInv'
  <2>1. /\ session[p].at = "validating" /\ UNCHANGED issued /\ UNCHANGED revoked
        /\ session[p].key \in 0..issued /\ session[p].key # 0
        /\ session[p].dead \subseteq revoked
    BY <1>3 DEF Validate, SessionInv
  <2>2. CASE ~reached
    <3>1. At(p, "failed", session[p].key) /\ UNCHANGED auth
      BY <1>3, <2>2 DEF Validate, Unreachable
    <3>2. QED
      BY <2>1, <3>1, AtStep DEF SessionInv, SessionSteps
  <2>3. CASE reached /\ session[p].key \in revoked
    <3>1. At(p, "login", session[p].key) /\ auth' = 0
      BY <1>3, <2>3 DEF Validate
    <3>2. QED
      BY <2>1, <3>1, AtStep DEF SessionInv, SessionSteps
  <2>4. CASE reached /\ session[p].key \notin revoked
    <3>1. At(p, "ready", session[p].key) /\ UNCHANGED auth
      BY <1>3, <2>4 DEF Validate
    <3>2. QED
      BY <2>1, <2>4, <3>1, AtStep DEF SessionInv, SessionSteps
  <2>5. QED
    BY <2>2, <2>3, <2>4
<1>4. ASSUME NEW p \in Processes, LoginReady(p)
      PROVE  SessionInv'
  <2>1. /\ issued' = issued + 1 /\ auth' = issued + 1 /\ At(p, "ready", issued + 1)
        /\ UNCHANGED revoked
    BY <1>4 DEF LoginReady
  <2>2. /\ issued \in Nat /\ revoked \subseteq 1..issued /\ session[p].dead \subseteq revoked
    BY DEF SessionInv
  <2>3. issued + 1 \notin {0} \cup session[p].dead
    BY <2>2
  <2>4. QED
    BY <2>1, <2>2, <2>3, AtStep DEF SessionSteps
<1>5. ASSUME NEW p \in Processes, LoginFails(p)
      PROVE  SessionInv'
  BY <1>5, AtStep DEF LoginFails, SessionInv, SessionSteps
<1>6. ASSUME NEW p \in Processes, Logout(p)
      PROVE  SessionInv'
  BY <1>6, AtStep DEF Logout, SessionInv, SessionSteps
<1>7. ASSUME NEW key \in 1..MaxLogins, Revoke(key)
      PROVE  SessionInv'
  <2>1. /\ key \in 1..issued /\ revoked' = revoked \cup {key}
        /\ UNCHANGED auth /\ UNCHANGED issued /\ UNCHANGED session
    BY <1>7 DEF Revoke
  <2>2. session' \in [Processes -> [at : SessionSteps, key : 0..issued', dead : SUBSET revoked']]
    BY <2>1 DEF SessionInv
  <2>3. QED
    BY <2>1, <2>2 DEF SessionInv
<1>8. QED
  BY <1>1, <1>2, <1>3, <1>4, <1>5, <1>6, <1>7 DEF Credential

\* Nobody waits on when the request is answered, and only a usable answer that
\* somebody waited for makes the list the server's.
LEMMA CatalogKept ==
  ASSUME CatalogInv, [Catalog]_catalog
  PROVE  CatalogInv'
<1> DEFINE Catalogs == [models : {"bundled", "server"}, request : {"none", "sent"},
                        state : [Callers -> CallerSteps]]
<1>1. /\ catalog \in Catalogs /\ catalog.state \in [Callers -> CallerSteps]
      /\ catalog.models \in {"bundled", "server"} /\ catalog.request \in {"none", "sent"}
  BY DEF CatalogInv
<1>2. CASE UNCHANGED catalog
  BY <1>2 DEF CatalogInv, Waiting
<1>3. ASSUME NEW c \in Callers, AskCatalog(c)
      PROVE  CatalogInv'
  <2>1. CASE catalog.models = "server"
    <3>1. catalog' = [models |-> "server", request |-> catalog.request,
                      state |-> [catalog.state EXCEPT ![c] = "server"]]
      BY <1>1, <1>3, <2>1 DEF AskCatalog
    <3>2. catalog'.state \in [Callers -> CallerSteps]
      BY <1>1, <3>1 DEF CallerSteps
    <3>3. catalog' \in Catalogs
      BY <1>1, <3>1, <3>2
    <3>4. QED
      BY <1>1, <3>1, <3>3 DEF CatalogInv, Waiting
  <2>2. CASE catalog.models # "server"
    <3>1. catalog' = [models |-> catalog.models, request |-> "sent",
                      state |-> [catalog.state EXCEPT ![c] = "waiting"]]
      BY <1>1, <1>3, <2>2 DEF AskCatalog
    <3>2. catalog'.state \in [Callers -> CallerSteps]
      BY <1>1, <3>1 DEF CallerSteps
    <3>3. catalog' \in Catalogs
      BY <1>1, <3>1, <3>2
    <3>4. \A d \in Callers : catalog'.state[d] # "server"
      BY <1>1, <2>2, <3>1 DEF CatalogInv
    <3>5. QED
      BY <3>1, <3>3, <3>4 DEF CatalogInv
  <2>3. QED
    BY <2>1, <2>2
<1>4. ASSUME NEW usable \in BOOLEAN, CatalogAnswered(usable)
      PROVE  CatalogInv'
  <2> DEFINE answer == IF usable THEN "server" ELSE "bundled"
             some == \E c \in Callers : Waiting(c)
  <2>1. catalog' = [models |-> IF usable /\ some THEN "server" ELSE catalog.models,
                    request |-> "none",
                    state |-> [c \in Callers |-> IF Waiting(c) THEN answer ELSE catalog.state[c]]]
    BY <1>4 DEF CatalogAnswered, Informed
  <2>2. catalog'.state \in [Callers -> CallerSteps]
    BY <1>1, <2>1 DEF CallerSteps
  <2>3. catalog' \in Catalogs
    BY <1>1, <2>1, <2>2
  <2>4. \A c \in Callers : catalog'.state[c] # "waiting"
    BY <2>1 DEF Waiting
  <2>5. (\E c \in Callers : catalog'.state[c] = "server") => catalog'.models = "server"
    BY <1>1, <2>1 DEF CatalogInv
  <2>6. QED
    BY <2>3, <2>4, <2>5 DEF CatalogInv, Waiting
<1>5. ASSUME NEW c \in Callers, CallerCancelled(c)
      PROVE  CatalogInv'
  <2>1. catalog' = [models |-> catalog.models, request |-> catalog.request,
                    state |-> [catalog.state EXCEPT ![c] = "cancelled"]]
    BY <1>1, <1>5 DEF CallerCancelled
  <2>2. catalog'.state \in [Callers -> CallerSteps]
    BY <1>1, <2>1 DEF CallerSteps
  <2>3. catalog' \in Catalogs
    BY <1>1, <2>1, <2>2
  <2>4. QED
    BY <1>1, <2>1, <2>3 DEF CatalogInv, Waiting
<1>6. QED
  BY <1>2, <1>3, <1>4, <1>5 DEF Catalog

\* The files do not touch each other.
LEMMA LocalKept == LocalInv /\ [LocalNext]_localVars => LocalInv'
<1> SUFFICES ASSUME LocalInv, [LocalNext]_localVars PROVE LocalInv'
  OBVIOUS
<1>1. /\ [Preferences]_prefVars /\ [RecentProjects]_projectVars
      /\ [Credential]_authVars /\ [Catalog]_catalog
  BY DEF LocalNext, localVars
<1>2. QED
  BY <1>1, PrefsKept, LockKept, SessionKept, CatalogKept DEF LocalInv

\* A process that got through its start runs on a credential that the server still
\* accepted when it was loaded, or on one of a login since (_credential); nobody
\* waits for a catalog request that is gone (load_chat_model_catalog): for any
\* processes, callers and logins.
THEOREM StartsAreSound == LocalSpec => []StartIsSound
<1>1. LocalInv => StartIsSound
  BY DEF LocalInv, SessionInv, CatalogInv, StartIsSound
<1>2. QED
  BY <1>1, LocalStarts, LocalKept, PTL DEF LocalSpec

\* What a process saves is not lost: the theme (record_update_check), the mark of a
\* notice (mark_notice_shown) and, under the lock, the rows of the recent projects
\* that another process wrote (state_lock).
THEOREM SavesSurvive == LocalSpec => [](ThemeIsKept /\ NoticesAreTrue /\ RowsAreFresh)
<1>1. LocalInv => ThemeIsKept /\ NoticesAreTrue /\ RowsAreFresh
  BY DEF LocalInv, PrefsInv, LockInv, ThemeIsKept, NoticesAreTrue, RowsAreFresh
<1>2. QED
  BY <1>1, LocalStarts, LocalKept, PTL DEF LocalSpec

----------------------------------------------------------------------------
(* The recent projects *)

Others == INSTANCE Folding WITH Op <- OtherRow

FirstPlace(kept, row) == IF Contains(kept, row) THEN kept ELSE Append(kept, row)
Places == INSTANCE Folding WITH Op <- FirstPlace

\* A folder, and then the other rows.
After(folder, rows) == FoldLeft(OtherRow, <<folder>>, rows)
Cut(rows) == SubSeq(rows, 1, IF Len(rows) < Limit THEN Len(rows) ELSE Limit)

LEMMA AfterFolds == \A folder, rows : After(folder, rows) = Others!Fold(<<folder>>, rows)
BY DEF After, FoldLeft, MapThenFoldSet, Max, Others!Fold, Others!Unfolded, Others!Largest

LEMMA DistinctFolds == \A rows : Distinct(rows) = Places!Fold(<<>>, rows)
BY DEF Distinct, FirstPlace, FoldLeft, MapThenFoldSet, Max, Places!Fold, Places!Unfolded, Places!Largest

LEMMA PlacesOfBoth ==
  ASSUME NEW base, NEW a \in Seq(Projects), NEW b \in Seq(Projects)
  PROVE  Places!Fold(base, a \o b) = Places!Fold(Places!Fold(base, a), b)
<1> DEFINE m == Len(a)
           k == Len(b)
           whole == a \o b
<1>1. m \in Nat /\ k \in Nat /\ DOMAIN a = 1..m /\ DOMAIN b = 1..k /\ DOMAIN whole = 1..(m + k)
  OBVIOUS
<1>2. \A i \in 1..m : whole[i] = a[i]
  OBVIOUS
<1>3. \A i \in 1..k : whole[m + i] = b[i]
  OBVIOUS
<1> HIDE DEF m, k, whole
<1>4. Places!Fold(base, whole) = Places!Fold(Places!Fold(base, a), b)
  BY <1>1, <1>2, <1>3, Places!FoldConcat
<1> QED BY <1>4 DEF whole

LEMMA DistinctTyped ==
  ASSUME NEW rows \in Seq(Projects)
  PROVE  Distinct(rows) \in Seq(Projects) /\ IsInjective(Distinct(rows))
<1> DEFINE T == {t \in Seq(Projects) : IsInjective(t)}
<1>1. ASSUME NEW t \in T, NEW e \in Projects PROVE FirstPlace(t, e) \in T
  <2>1. CASE Contains(t, e)
    BY <2>1 DEF FirstPlace
  <2>2. CASE ~Contains(t, e)
    <3> DEFINE u == Append(t, e)
    <3>1. /\ u \in Seq(Projects) /\ DOMAIN u = 1..(Len(t) + 1) /\ u[Len(t) + 1] = e
          /\ \A i \in 1..Len(t) : u[i] = t[i]
      OBVIOUS
    <3>2. \A i \in 1..Len(t) : t[i] # e
      BY <2>2 DEF Contains
    <3>3. \A i, j \in 1..Len(t) : t[i] = t[j] => i = j
      BY DEF IsInjective
    <3>4. Len(t) \in Nat /\ \A i : i \in 1..(Len(t) + 1) <=> i \in 1..Len(t) \/ i = Len(t) + 1
      OBVIOUS
    <3> HIDE DEF u
    <3>5. IsInjective(u)
      BY <3>1, <3>2, <3>3, <3>4 DEF IsInjective
    <3>6. FirstPlace(t, e) = u
      BY <2>2 DEF FirstPlace, u
    <3> QED BY <3>1, <3>5, <3>6
  <2> QED BY <2>1, <2>2
<1>2. <<>> \in T
  BY DEF IsInjective
<1>3. Len(rows) \in Nat /\ DOMAIN rows = 1..Len(rows) /\ \A i \in 1..Len(rows) : rows[i] \in Projects
  OBVIOUS
<1> HIDE DEF T
<1>4. Places!Fold(<<>>, rows) \in T
  BY <1>1, <1>2, <1>3, Places!FoldType
<1> QED BY <1>4, DistinctFolds DEF T

LEMMA AfterTyped ==
  ASSUME NEW f \in Projects, NEW rows \in Seq(Projects)
  PROVE  /\ After(f, rows) \in Seq(Projects) /\ Len(After(f, rows)) >= 1 /\ After(f, rows)[1] = f
         /\ \A x : Contains(After(f, rows), x) <=> x = f \/ Contains(rows, x)
<1> DEFINE n == Len(rows)
           T == [k \in 0..n |-> {t \in Seq(Projects) :
                   /\ Len(t) >= 1 /\ t[1] = f
                   /\ \A x : (\E i \in 1..Len(t) : t[i] = x) <=> x = f \/ \E i \in 1..k : rows[i] = x}]
<1>1. n \in Nat /\ DOMAIN rows = 1..n /\ \A i \in 1..n : rows[i] \in Projects
  OBVIOUS
<1>2. <<f>> \in T[0]
  <2> DEFINE one == <<f>>
  <2>1. one \in Seq(Projects) /\ Len(one) = 1 /\ one[1] = f
    OBVIOUS
  <2> HIDE DEF one
  <2>2. 0 \in 0..n /\ \A i : i \notin 1..0
    BY <1>1
  <2>3. \A i : i \in 1..1 <=> i = 1
    OBVIOUS
  <2>4. \A x : (\E i \in 1..Len(one) : one[i] = x) <=> x = f \/ \E i \in 1..0 : rows[i] = x
    <3> SUFFICES ASSUME NEW x PROVE (\E i \in 1..Len(one) : one[i] = x) <=> x = f \/ \E i \in 1..0 : rows[i] = x
      OBVIOUS
    <3>1. (\E i \in 1..Len(one) : one[i] = x) <=> x = f
      BY <2>1, <2>3
    <3> QED BY <2>2, <3>1
  <2>5. T[0] = {t \in Seq(Projects) :
                  /\ Len(t) >= 1 /\ t[1] = f
                  /\ \A x : (\E i \in 1..Len(t) : t[i] = x) <=> x = f \/ \E i \in 1..0 : rows[i] = x}
    BY <2>2
  <2> HIDE DEF T
  <2>6. Len(one) >= 1
    BY <2>1
  <2>7. one \in T[0]
    BY <2>1, <2>4, <2>5, <2>6
  <2> QED BY <2>7 DEF one
<1>3. ASSUME NEW k \in 0..(n - 1), NEW t \in T[k] PROVE OtherRow(t, rows[k + 1]) \in T[k + 1]
  <2> DEFINE e == rows[k + 1]
  <2>1. k \in 0..n /\ k + 1 \in 0..n /\ k \in Nat /\ k + 1 \in 1..n /\ e \in Projects
    BY <1>1
  <2>2. /\ t \in Seq(Projects) /\ Len(t) >= 1 /\ t[1] = f
        /\ \A x : (\E i \in 1..Len(t) : t[i] = x) <=> x = f \/ \E i \in 1..k : rows[i] = x
    BY <2>1
  <2>3. \A i : i \in 1..(k + 1) <=> i \in 1..k \/ i = k + 1
    BY <2>1
  <2>4. \A x : (\E i \in 1..(k + 1) : rows[i] = x) <=> x = e \/ \E i \in 1..k : rows[i] = x
    BY <2>3
  <2> HIDE DEF e
  <2>5. CASE e = f
    <3>1. OtherRow(t, e) = t
      BY <2>2, <2>5 DEF OtherRow
    <3>2. t \in T[k + 1]
      BY <2>1, <2>2, <2>4, <2>5
    <3> QED BY <3>1, <3>2 DEF e
  <2>6. CASE e # f
    <3> DEFINE u == Append(t, e)
    <3>1. OtherRow(t, e) = u
      BY <2>2, <2>6 DEF OtherRow
    <3>2. /\ u \in Seq(Projects) /\ Len(u) = Len(t) + 1 /\ u[Len(t) + 1] = e
          /\ \A i \in 1..Len(t) : u[i] = t[i]
      BY <2>1, <2>2
    <3>3. Len(t) \in Nat /\ \A i : i \in 1..(Len(t) + 1) <=> i \in 1..Len(t) \/ i = Len(t) + 1
      BY <2>2
    <3> HIDE DEF u
    <3>4. \A x : (\E i \in 1..Len(u) : u[i] = x) <=> x = e \/ \E i \in 1..Len(t) : t[i] = x
      BY <3>2, <3>3
    <3>5. \A x : (\E i \in 1..Len(u) : u[i] = x) <=> x = f \/ \E i \in 1..(k + 1) : rows[i] = x
      BY <2>2, <2>4, <3>4
    <3>6. Len(u) >= 1 /\ u[1] = f
      BY <2>2, <3>2, <3>3
    <3>7. u \in T[k + 1]
      BY <2>1, <3>2, <3>5, <3>6
    <3> QED BY <3>1, <3>7 DEF e
  <2> QED BY <2>5, <2>6
<1> HIDE DEF T
<1> DEFINE one == <<f>>
<1> HIDE DEF one
<1>4. one \in T[0]
  BY <1>2 DEF one
<1>5. Others!Fold(one, rows) \in T[n]
  BY <1>1, <1>3, <1>4, Others!FoldStepwise
<1>6. After(f, rows) \in T[n]
  BY <1>5, AfterFolds DEF one
<1> QED BY <1>1, <1>6 DEF T, Contains

\* The folders of a list that a folder is put before.
LEMMA DistinctAfter ==
  ASSUME NEW f \in Projects, NEW rows \in Seq(Projects)
  PROVE  Distinct(<<f>> \o rows) = After(f, Distinct(rows))
<1> DEFINE n == Len(rows)
           one == <<f>>
           T == [k \in 0..n |-> {After(f, Distinct([i \in 1..k |-> rows[i]]))}]
<1>1. n \in Nat /\ DOMAIN rows = 1..n /\ \A i \in 1..n : rows[i] \in Projects
  OBVIOUS
<1>2. Distinct(one) = one
  <2>1. one = Append(<<>>, f) /\ <<>> \in Seq(Projects)
    OBVIOUS
  <2>2. Places!Fold(<<>>, <<>>) = <<>>
    <3>1. DOMAIN <<>> = {}
      OBVIOUS
    <3> QED BY <3>1, Places!FoldEmpty
  <2> DEFINE none == <<>>
  <2>3. ~Contains(none, f)
    BY DEF Contains
  <2>4. FirstPlace(none, f) = Append(none, f)
    BY <2>3 DEF FirstPlace
  <2>5. none \in Seq(Projects)
    OBVIOUS
  <2> HIDE DEF none
  <2>6. Places!Fold(none, Append(none, f)) = FirstPlace(Places!Fold(none, none), f)
    BY <2>5, Places!FoldAppend
  <2> QED BY <2>1, <2>2, <2>4, <2>6, DistinctFolds DEF none
<1>3. one \in T[0]
  <2> DEFINE none == [i \in 1..0 |-> rows[i]]
  <2>1. DOMAIN none = {}
    OBVIOUS
  <2> HIDE DEF none
  <2>2. Distinct(none) = <<>>
    BY <2>1, Places!FoldEmpty, DistinctFolds
  <2>3. After(f, <<>>) = one
    <3>1. DOMAIN <<>> = {}
      OBVIOUS
    <3> HIDE DEF one
    <3>2. Others!Fold(one, <<>>) = one
      BY <3>1, Others!FoldEmpty
    <3> QED BY <3>2, AfterFolds DEF one
  <2>4. 0 \in 0..n
    BY <1>1
  <2> HIDE DEF one
  <2> QED BY <2>2, <2>3, <2>4 DEF none
<1>4. ASSUME NEW k \in 0..(n - 1), NEW t \in T[k] PROVE FirstPlace(t, rows[k + 1]) \in T[k + 1]
  <2> DEFINE s == [i \in 1..k |-> rows[i]]
             u == [i \in 1..(k + 1) |-> rows[i]]
             e == rows[k + 1]
             d == Distinct(s)
  <2>1. k \in 0..n /\ k + 1 \in 0..n /\ k \in Nat /\ k + 1 \in 1..n /\ e \in Projects
    BY <1>1
  <2>2. t = After(f, d)
    BY <2>1
  <2>3. s \in Seq(Projects) /\ u = Append(s, e)
    BY <1>1, <2>1
  <2>4. Distinct(u) = FirstPlace(d, e)
    <3> HIDE DEF s, e, u
    <3>1. Places!Fold(<<>>, Append(s, e)) = FirstPlace(Places!Fold(<<>>, s), e)
      <4> DEFINE none == <<>>
      <4> HIDE DEF none
      <4>1. Places!Fold(none, Append(s, e)) = FirstPlace(Places!Fold(none, s), e)
        BY <2>1, <2>3, Places!FoldAppend
      <4> QED BY <4>1 DEF none
    <3> QED BY <2>3, <3>1, DistinctFolds
  <2> HIDE DEF s, u, e
  <2>5. d \in Seq(Projects)
    BY <2>3, DistinctTyped
  <2> HIDE DEF d
  <2>6. Contains(t, e) <=> e = f \/ Contains(d, e)
    BY <2>2, <2>5, AfterTyped
  <2>7. FirstPlace(t, e) = After(f, FirstPlace(d, e))
    <3>1. CASE Contains(d, e)
      BY <2>2, <2>6, <3>1 DEF FirstPlace
    <3>2. CASE ~Contains(d, e)
      <4>1. FirstPlace(d, e) = Append(d, e)
        BY <3>2 DEF FirstPlace
      <4>2. After(f, Append(d, e)) = OtherRow(t, e)
        <5> HIDE DEF one
        <5>1. Others!Fold(one, Append(d, e)) = OtherRow(Others!Fold(one, d), e)
          BY <2>1, <2>5, Others!FoldAppend
        <5> QED BY <2>2, <5>1, AfterFolds DEF one
      <4>3. t[1] = f
        BY <2>2, <2>5, AfterTyped
      <4>4. OtherRow(t, e) = IF e = f THEN t ELSE Append(t, e)
        BY <4>3 DEF OtherRow
      <4>5. FirstPlace(t, e) = IF e = f THEN t ELSE Append(t, e)
        BY <2>6, <3>2 DEF FirstPlace
      <4> QED BY <4>1, <4>2, <4>4, <4>5
    <3> QED BY <3>1, <3>2
  <2>8. T[k + 1] = {After(f, Distinct(u))}
    BY <2>1 DEF u
  <2> QED BY <2>4, <2>7, <2>8 DEF e
<1>5. Places!Fold(one, rows) \in T[n]
  <2> HIDE DEF T, one
  <2> QED BY <1>1, <1>3, <1>4, Places!FoldStepwise
<1>6. T[n] = {After(f, Distinct(rows))}
  <2>1. rows = [i \in 1..n |-> rows[i]]
    BY <1>1
  <2> QED BY <1>1, <2>1
<1>7. Places!Fold(<<>>, one \o rows) = Places!Fold(Places!Fold(<<>>, one), rows)
  <2> DEFINE none == <<>>
  <2>1. one \in Seq(Projects)
    OBVIOUS
  <2> HIDE DEF one, none, n, T
  <2>2. Places!Fold(none, one \o rows) = Places!Fold(Places!Fold(none, one), rows)
    BY <2>1, PlacesOfBoth
  <2> QED BY <2>2 DEF none
<1> HIDE DEF T, one
<1>8. Places!Fold(<<>>, one \o rows) = After(f, Distinct(rows))
  BY <1>2, <1>5, <1>6, <1>7, DistinctFolds
<1> QED BY <1>8, DistinctFolds DEF one

\* What is put before a list goes on with it: of a longer list comes a longer one.
LEMMA AfterGoesOn ==
  ASSUME NEW f \in Projects, NEW rows \in Seq(Projects), NEW k \in 0..Len(rows)
  PROVE  LET short == After(f, SubSeq(rows, 1, k))
             long == After(f, rows) IN
         Len(short) <= Len(long) /\ \A i \in 1..Len(short) : long[i] = short[i]
<1> DEFINE n == Len(rows)
           head == SubSeq(rows, 1, k)
           tail == SubSeq(rows, k + 1, n)
           m == n - k
           short == After(f, head)
           one == <<f>>
           T == {t \in Seq(Projects) : Len(short) <= Len(t) /\ \A i \in 1..Len(short) : t[i] = short[i]}
<1>1. n \in Nat /\ DOMAIN rows = 1..n /\ k \in Nat /\ k <= n /\ m \in Nat
  OBVIOUS
<1>2. head \in Seq(Projects) /\ DOMAIN head = 1..k /\ \A i \in 1..k : rows[i] = head[i]
  BY <1>1
<1>3. DOMAIN tail = 1..m /\ (\A i \in 1..m : rows[k + i] = tail[i]) /\ \A i \in 1..m : tail[i] \in Projects
  BY <1>1
<1>4. DOMAIN rows = 1..(k + m)
  BY <1>1
<1> HIDE DEF head, tail, m
<1>5. short \in Seq(Projects)
  BY <1>2, AfterTyped
<1>6. After(f, rows) = Others!Fold(short, tail)
  <2> HIDE BoundsAssumption DEF one, n
  <2>1. Others!Fold(one, rows) = Others!Fold(Others!Fold(one, head), tail)
    <3>1. DOMAIN head = 1..k
      BY <1>2
    <3>2. DOMAIN tail = 1..m
      BY <1>3
    <3>3. \A i \in 1..k : rows[i] = head[i]
      BY <1>2
    <3>4. \A i \in 1..m : rows[k + i] = tail[i]
      BY <1>3
    <3> QED BY <1>1, <1>4, <3>1, <3>2, <3>3, <3>4, Others!FoldConcat
  <2> QED BY <2>1, AfterFolds DEF one
<1> HIDE DEF short
<1>7. short \in T
  BY <1>5
<1>8. ASSUME NEW t \in T, NEW e \in Projects PROVE OtherRow(t, e) \in T
  <2>1. CASE e = t[1]
    BY <2>1 DEF OtherRow
  <2>2. CASE e # t[1]
    <3> DEFINE u == Append(t, e)
    <3>1. /\ u \in Seq(Projects) /\ Len(u) = Len(t) + 1 /\ Len(t) \in Nat
          /\ \A i \in 1..Len(t) : u[i] = t[i]
      OBVIOUS
    <3>2. Len(short) \in Nat /\ Len(short) <= Len(t) /\ \A i \in 1..Len(short) : t[i] = short[i]
      BY <1>5
    <3>3. OtherRow(t, e) = u
      BY <2>2 DEF OtherRow
    <3> HIDE DEF u
    <3>4. \A i \in 1..Len(short) : u[i] = short[i]
      BY <3>1, <3>2
    <3> QED BY <3>1, <3>2, <3>3, <3>4
  <2> QED BY <2>1, <2>2
<1> HIDE DEF T
<1>9. Others!Fold(short, tail) \in T
  <2>1. DOMAIN tail = 1..m
    BY <1>3
  <2>2. \A i \in 1..m : tail[i] \in Projects
    BY <1>3
  <2> QED BY <1>1, <1>7, <1>8, <2>1, <2>2, Others!FoldType
<1> QED BY <1>6, <1>9 DEF T, short, head

\* Of a list without repetition at most one row is left out.
LEMMA AfterIsLong ==
  ASSUME NEW f \in Projects, NEW rows \in Seq(Projects), IsInjective(rows)
  PROVE  Len(After(f, rows)) >= Len(rows)
<1> DEFINE n == Len(rows)
           one == <<f>>
           T == [k \in 0..n |-> {t \in Seq(Projects) :
                   Len(t) >= 1 /\ t[1] = f /\ Len(t) >= k /\ ((\A i \in 1..k : rows[i] # f) => Len(t) >= k + 1)}]
<1>1. n \in Nat /\ DOMAIN rows = 1..n /\ \A i \in 1..n : rows[i] \in Projects
  OBVIOUS
<1>2. one \in T[0]
  <2>1. one \in Seq(Projects) /\ Len(one) = 1 /\ one[1] = f
    OBVIOUS
  <2> HIDE DEF one
  <2>2. 0 \in 0..n
    BY <1>1
  <2>3. T[0] = {t \in Seq(Projects) :
                  Len(t) >= 1 /\ t[1] = f /\ Len(t) >= 0 /\ ((\A i \in 1..0 : rows[i] # f) => Len(t) >= 0 + 1)}
    BY <2>2
  <2> HIDE DEF T
  <2> QED BY <2>1, <2>3
<1>3. ASSUME NEW k \in 0..(n - 1), NEW t \in T[k] PROVE OtherRow(t, rows[k + 1]) \in T[k + 1]
  <2> DEFINE e == rows[k + 1]
  <2>1. k \in 0..n /\ k + 1 \in 0..n /\ k \in Nat /\ k + 1 \in 1..n /\ e \in Projects
    BY <1>1
  <2>2. /\ t \in Seq(Projects) /\ Len(t) >= 1 /\ t[1] = f /\ Len(t) >= k /\ Len(t) \in Nat
        /\ (\A i \in 1..k : rows[i] # f) => Len(t) >= k + 1
    BY <2>1
  <2>3. CASE e = f
    <3>1. OtherRow(t, e) = t
      BY <2>2, <2>3 DEF OtherRow
    <3>2. \A i \in 1..k : rows[i] # f
      <4> SUFFICES ASSUME NEW i \in 1..k, rows[i] = f PROVE FALSE
        OBVIOUS
      <4>1. i \in 1..n /\ k + 1 \in 1..n /\ i # k + 1
        BY <2>1
      <4> QED BY <1>1, <2>3, <4>1 DEF IsInjective
    <3>3. Len(t) >= k + 1
      BY <2>2, <3>2
    <3>4. ~\A i \in 1..(k + 1) : rows[i] # f
      BY <2>1, <2>3
    <3>5. t \in T[k + 1]
      BY <2>1, <2>2, <3>3, <3>4
    <3> QED BY <3>1, <3>5
  <2>4. CASE e # f
    <3> DEFINE u == Append(t, e)
    <3>1. OtherRow(t, e) = u
      BY <2>2, <2>4 DEF OtherRow
    <3>2. u \in Seq(Projects) /\ Len(u) = Len(t) + 1 /\ \A i \in 1..Len(t) : u[i] = t[i]
      BY <2>1, <2>2
    <3> HIDE DEF u
    <3>3. u[1] = f /\ Len(u) >= k + 1
      BY <2>2, <3>2
    <3>4. (\A i \in 1..(k + 1) : rows[i] # f) => Len(u) >= k + 1 + 1
      <4>1. (\A i \in 1..(k + 1) : rows[i] # f) => \A i \in 1..k : rows[i] # f
        BY <2>1
      <4> QED BY <2>1, <2>2, <3>2, <4>1
    <3>5. u \in T[k + 1]
      BY <2>1, <2>2, <3>2, <3>3, <3>4
    <3> QED BY <3>1, <3>5
  <2> QED BY <2>3, <2>4
<1> HIDE DEF T, one
<1>4. Others!Fold(one, rows) \in T[n]
  BY <1>1, <1>2, <1>3, Others!FoldStepwise
<1>5. After(f, rows) \in T[n]
  BY <1>4, AfterFolds DEF one
<1> QED BY <1>1, <1>5 DEF T

\* To put a folder before a list and cut is to cut, to put it before, and to cut again.
LEMMA CutAfter ==
  ASSUME Limit \in Nat, NEW f \in Projects, NEW rows \in Seq(Projects), IsInjective(rows)
  PROVE  Cut(After(f, Cut(rows))) = Cut(After(f, rows))
<1> DEFINE n == Len(rows)
           long == After(f, rows)
<1>1. n \in Nat /\ long \in Seq(Projects)
  BY AfterTyped
<1>2. CASE n <= Limit
  <2>1. (IF n < Limit THEN n ELSE Limit) = n
    BY <1>1, <1>2
  <2>2. SubSeq(rows, 1, n) = rows
    OBVIOUS
  <2>3. Cut(rows) = rows
    BY <2>1, <2>2 DEF Cut
  <2> QED BY <2>3
<1>3. CASE n > Limit
  <2> DEFINE some == SubSeq(rows, 1, Limit)
             short == After(f, some)
  <2>1. Cut(rows) = some
    BY <1>1, <1>3 DEF Cut
  <2>2. some \in Seq(Projects) /\ Len(some) = Limit /\ \A i \in 1..Limit : some[i] = rows[i]
    BY <1>1, <1>3
  <2>3. IsInjective(some)
    <3>1. DOMAIN some = 1..Limit /\ DOMAIN rows = 1..n /\ \A i \in 1..Limit : i \in 1..n
      BY <1>1, <1>3, <2>2
    <3> HIDE DEF some
    <3> QED BY <2>2, <3>1 DEF IsInjective
  <2>4. Limit \in 0..Len(rows)
    BY <1>1, <1>3
  <2>5. Len(short) <= Len(long) /\ \A i \in 1..Len(short) : long[i] = short[i]
    BY <2>4, AfterGoesOn
  <2> HIDE DEF some
  <2>6. short \in Seq(Projects) /\ Len(short) >= Limit
    BY <2>2, <2>3, AfterTyped, AfterIsLong
  <2> HIDE DEF short, long
  <2>7. Len(short) \in Nat /\ Len(long) \in Nat
    BY <1>1, <2>6
  <2>8. (IF Len(short) < Limit THEN Len(short) ELSE Limit) = Limit
        /\ (IF Len(long) < Limit THEN Len(long) ELSE Limit) = Limit
    BY <2>5, <2>6, <2>7
  <2>9. Cut(short) = SubSeq(short, 1, Limit) /\ Cut(long) = SubSeq(long, 1, Limit)
    BY <2>8 DEF Cut
  <2>10. SubSeq(short, 1, Limit) = SubSeq(long, 1, Limit)
    <3>1. SubSeq(short, 1, Limit) = [i \in 1..Limit |-> short[i]]
      BY <2>6, <2>7
    <3>2. SubSeq(long, 1, Limit) = [i \in 1..Limit |-> long[i]]
      BY <1>1, <2>5, <2>6, <2>7
    <3>3. \A i \in 1..Limit : short[i] = long[i]
      BY <2>5, <2>6, <2>7
    <3> QED BY <3>1, <3>2, <3>3
  <2> QED BY <2>1, <2>9, <2>10 DEF short, long
<1> QED BY <1>1, <1>2, <1>3

\* The rows on file are the folders that were opened, and whoever is about to write
\* holds the rows on file.
RecentsInv ==
  /\ opened \in Seq(Projects)
  /\ \A p \in Processes : remembering[p] # Nothing => remembering[p].project \in Projects
  /\ LocksWork => recents = Cut(Distinct(opened))

LEMMA RecentsStart == LocalInit => RecentsInv
<1> SUFFICES ASSUME LocalInit PROVE RecentsInv
  OBVIOUS
<1>1. /\ recents = <<>> /\ opened = <<>> /\ \A p \in Processes : remembering[p] = Nothing
  BY DEF LocalInit
<1> DEFINE none == <<>>
<1>2. Len(none) = 0 /\ DOMAIN none = {} /\ \A i : SubSeq(none, 1, 0) = none
  OBVIOUS
<1>3. Limit \in Nat
  BY LocalStateAssumption
<1>4. (IF 0 < Limit THEN 0 ELSE Limit) = 0
  BY <1>3
<1>5. opened \in Seq(Projects)
  BY <1>1
<1>6. recents = none /\ opened = none
  BY <1>1
<1> HIDE DEF none
<1>7. Distinct(none) = <<>>
  BY <1>2, DistinctFolds, Places!FoldEmpty
<1>8. Cut(none) = none
  BY <1>2, <1>4 DEF Cut
<1> QED BY <1>1, <1>5, <1>6, <1>7, <1>8 DEF RecentsInv, none

LEMMA RecentsKept ==
  ASSUME LockInv, RecentsInv, [RecentProjects]_projectVars
  PROVE  RecentsInv'
<1>1. CASE UNCHANGED projectVars
  <2>1. UNCHANGED recents /\ UNCHANGED remembering /\ UNCHANGED opened
    BY <1>1 DEF projectVars
  <2> QED BY <2>1 DEF RecentsInv
<1>2. ASSUME NEW p \in Processes, NEW project \in Projects, ReadProjects(p, project)
      PROVE  RecentsInv'
  <2>1. /\ remembering' = [remembering EXCEPT ![p] = [rows |-> recents, project |-> project]]
        /\ UNCHANGED recents /\ UNCHANGED opened
    BY <1>2 DEF ReadProjects
  <2>2. \A q \in Processes : remembering'[q] # Nothing => remembering'[q].project \in Projects
    BY <2>1 DEF RecentsInv, LockInv
  <2> QED BY <2>1, <2>2 DEF RecentsInv
<1>3. ASSUME NEW p \in Processes, WriteProjects(p)
      PROVE  RecentsInv'
  <2> DEFINE f == remembering[p].project
             all == Distinct(opened)
  <2>1. /\ remembering[p] # Nothing /\ f \in Projects /\ opened \in Seq(Projects)
        /\ remembering' = [remembering EXCEPT ![p] = Nothing]
        /\ recents' = WithProject(remembering[p].rows, f) /\ opened' = <<f>> \o opened
    BY <1>3 DEF WriteProjects, RecentsInv
  <2>2. \A q \in Processes : remembering'[q] # Nothing => remembering'[q].project \in Projects
    BY <2>1 DEF RecentsInv, LockInv
  <2>3. opened' \in Seq(Projects)
    BY <2>1
  <2>4. LocksWork => recents' = Cut(After(f, recents))
    BY <2>1 DEF LockInv, WithProject, Cut, After
  <2>5. LocksWork => recents = Cut(all)
    BY DEF RecentsInv
  <2> HIDE DEF f
  <2>6. Distinct(<<f>> \o opened) = After(f, all)
    BY <2>1, DistinctAfter
  <2>7. all \in Seq(Projects) /\ IsInjective(all)
    BY <2>1, DistinctTyped
  <2>8. Limit \in Nat
    BY LocalStateAssumption
  <2>9. Distinct(opened') = After(f, all)
    BY <2>1, <2>6
  <2> HIDE DEF all
  <2>10. Cut(After(f, Cut(all))) = Cut(After(f, all))
    BY <2>1, <2>7, <2>8, CutAfter
  <2>11. LocksWork => recents' = Cut(Distinct(opened'))
    BY <2>4, <2>5, <2>9, <2>10
  <2> QED BY <2>2, <2>3, <2>11 DEF RecentsInv
<1>4. ASSUME NEW p \in Processes, KilledWhileRemembering(p)
      PROVE  RecentsInv'
  <2>1. /\ remembering' = [remembering EXCEPT ![p] = Nothing]
        /\ UNCHANGED recents /\ UNCHANGED opened
    BY <1>4 DEF KilledWhileRemembering
  <2>2. \A q \in Processes : remembering'[q] # Nothing => remembering'[q].project \in Projects
    BY <2>1 DEF RecentsInv, LockInv
  <2> QED BY <2>1, <2>2 DEF RecentsInv
<1>5. QED
  BY <1>1, <1>2, <1>3, <1>4 DEF RecentProjects

\* The small files of a user serve every process that starts from them: what was
\* saved is on file, the recent projects are the folders all processes opened, newest
\* first, each once and at most Limit of them (remember_workspace), and a process
\* starts on a credential the server accepted when it was loaded (_credential).
THEOREM FilesServeEveryProcess == LocalSpec => []FilesAreSound
<1> DEFINE FilesInv == LocalInv /\ RecentsInv
<1>1. LocalInit => FilesInv
  BY LocalStarts, RecentsStart
<1>2. FilesInv /\ [LocalNext]_localVars => FilesInv'
  <2> SUFFICES ASSUME LocalInv, RecentsInv, [LocalNext]_localVars PROVE LocalInv' /\ RecentsInv'
    OBVIOUS
  <2>1. [RecentProjects]_projectVars
    BY DEF LocalNext, localVars
  <2> QED BY <2>1, LocalKept, RecentsKept DEF LocalInv
<1>3. FilesInv => FilesAreSound
  <2> SUFFICES ASSUME LocalInv, RecentsInv PROVE FilesAreSound
    OBVIOUS
  <2>1. ThemeIsKept /\ NoticesAreTrue /\ RowsAreFresh
    BY DEF LocalInv, PrefsInv, LockInv, ThemeIsKept, NoticesAreTrue, RowsAreFresh
  <2>2. RecentsAreKept
    BY DEF RecentsInv, RecentsAreKept, Cut
  <2>3. StartIsSound
    BY DEF LocalInv, SessionInv, CatalogInv, StartIsSound
  <2> QED BY <2>1, <2>2, <2>3 DEF FilesAreSound, SavedStateSurvives
<1> HIDE DEF FilesInv
<1>4. QED
  BY <1>1, <1>2, <1>3, PTL DEF LocalSpec

----------------------------------------------------------------------------
(* Sums of sizes *)

Adding(total, size) == total + size
Sums == INSTANCE Folding WITH Op <- Adding

LEMMA SumFolds == \A sizes : Sum(sizes) = Sums!Fold(0, sizes)
BY DEF Sum, Adding, FoldLeft, MapThenFoldSet, Max, Sums!Fold, Sums!Unfolded, Sums!Largest

LEMMA SumEmpty == ASSUME NEW sizes, DOMAIN sizes = {} PROVE Sum(sizes) = 0
<1>1. Sums!Fold(0, sizes) = 0
  BY Sums!FoldEmpty
<1> QED BY <1>1, SumFolds

LEMMA SumTyped ==
  ASSUME NEW n \in Nat, NEW sizes, DOMAIN sizes = 1..n, \A i \in 1..n : sizes[i] \in Int
  PROVE  Sum(sizes) \in Int
<1>1. \A t \in Int, e \in Int : Adding(t, e) \in Int
  BY DEF Adding
<1>2. Sums!Fold(0, sizes) \in Int
  BY <1>1, Sums!FoldType, 0 \in Int
<1> QED BY <1>2, SumFolds

LEMMA MaxIn ==
  ASSUME NEW n \in Nat, NEW S \in SUBSET (0..n), S # {}
  PROVE  Max(S) \in S /\ \A y \in S : Max(S) >= y
<1>1. \E x \in S : \A y \in S : x >= y
  BY Sums!HasLargest
<1> QED BY <1>1 DEF Max

LEMMA MinIn ==
  ASSUME NEW n \in Nat, NEW S \in SUBSET (0..n), S # {}
  PROVE  Min(S) \in S
<1>1. \E x \in S : \A y \in S : x <= y
  BY Sums!HasSmallest
<1> QED BY <1>1 DEF Min

----------------------------------------------------------------------------
(* FrameLimits *)

FrameTyped ==
  /\ chat \in Seq(Nat) /\ partial \in Nat /\ results \in Seq(Nat)
  /\ lines \in Seq(Nat) /\ lines # <<>>

\* A chat_start tells of the history and of the results as the properties ask.
HistoryTold(frame) ==
  LET note == IF frame.omitted > 0 THEN 1 ELSE 0 IN
  /\ Len(frame.context) = note + Len(chat) - frame.omitted
  /\ \A i \in DOMAIN frame.context :
        IF i <= note THEN frame.context[i] = Note
        ELSE frame.context[i].role = "message" /\ frame.context[i].at = frame.omitted + i - note
  /\ chat # <<>> => frame.omitted < Len(chat)

ResultsTold(frame) ==
  frame.resume # NoResume =>
    /\ Len(frame.resume.results) = Len(frame.of)
    /\ \A i \in frame.resume.left : \A j \in 1..(i - 1) : frame.of[j] > 0 => j \in frame.resume.left
    /\ frame.resume.left # {} => Sum([i \in DOMAIN frame.of |-> 1 + frame.of[i]]) + partial > ResumeLimit

FrameTold(frame) == frame.sent => HistoryTold(frame) /\ ResultsTold(frame)

StartsTold == \A frame \in Range(starts) : FrameTold(frame)

PagesTyped == pages \in Seq([start : Nat, end : 1..Len(lines), more : BOOLEAN])

FrameInv == FrameTyped /\ StartsTold /\ starts \in Seq(Range(starts)) /\ PagesTyped /\ PagesAreTheFile

\* The entries of a context: the last of the chat, after a note unless they are all.
LEMMA BoundedIs ==
  ASSUME FrameTyped, NEW rung
  PROVE  \E k \in 0..Len(chat) :
           LET note == IF k < Len(chat) THEN 1 ELSE 0 IN
           /\ chat # <<>> => k > 0
           /\ \E S : Bounded(rung) \in Seq(S)
           /\ Len(Bounded(rung)) = note + k
           /\ k < Len(chat) => Bounded(rung)[1] = Note
           /\ \A i \in (note + 1)..(note + k) :
                Bounded(rung)[i].role = "message" /\ Bounded(rung)[i].at = Len(chat) - k + i - note
<1> DEFINE n == Len(chat)
           E == [role : {"note", "message"}, size : {0} \cup {Smaller(chat[i], rung.message) : i \in DOMAIN chat}, at : Nat]
           clipped == [i \in DOMAIN chat |->
                       [role |-> "message", size |-> Smaller(chat[i], rung.message), at |-> i]]
           SizeOfLast(k) == Sum([i \in 1..k |-> LastOf(clipped, k)[i].size])
           fits == {k \in 0..Smaller(Len(chat), MaxEntries) : k <= 1 \/ SizeOfLast(k) <= rung.total}
           k == Max(fits)
           kept == LastOf(clipped, k)
<1>1. n \in Nat /\ DOMAIN chat = 1..n /\ clipped \in Seq(E) /\ Len(clipped) = n
  <2>1. n \in Nat /\ DOMAIN chat = 1..n
    BY DEF FrameTyped
  <2>2. \A i \in 1..n : clipped[i] \in E
    <3> SUFFICES ASSUME NEW i \in 1..n PROVE clipped[i] \in E
      OBVIOUS
    <3>1. Smaller(chat[i], rung.message) \in {0} \cup {Smaller(chat[j], rung.message) : j \in DOMAIN chat}
      BY <2>1
    <3>2. clipped[i] = [role |-> "message", size |-> Smaller(chat[i], rung.message), at |-> i]
      BY <2>1
    <3> QED BY <3>1, <3>2
  <2>3. clipped = [i \in 1..n |-> clipped[i]]
    BY <2>1
  <2> HIDE DEF clipped, E
  <2>4. [i \in 1..n |-> clipped[i]] \in Seq(E)
    BY <2>1, <2>2
  <2> QED BY <2>1, <2>3, <2>4
<1>2. MaxEntries \in Nat /\ MaxEntries # 0
  BY FrameLimitsAssumption
<1>3. Smaller(Len(chat), MaxEntries) \in 0..n /\ (n > 0 => Smaller(Len(chat), MaxEntries) >= 1)
  BY <1>1, <1>2 DEF Smaller
<1>4. fits \in SUBSET (0..n) /\ 0 \in fits /\ (n > 0 => 1 \in fits)
  <2> HIDE DEF SizeOfLast
  <2> QED BY <1>1, <1>3
<1>5. k \in 0..n /\ (n > 0 => k > 0)
  <2> HIDE DEF fits
  <2>1. k \in fits /\ \A y \in fits : k >= y
    BY <1>1, <1>4, MaxIn
  <2>2. k \in 0..n
    BY <1>4, <2>1
  <2>3. n > 0 => k >= 1
    BY <1>4, <2>1
  <2> QED BY <1>1, <2>2, <2>3
<1>6. Bounded(rung) = IF Len(kept) < Len(chat) THEN <<Note>> \o kept ELSE kept
  BY Zenon DEF Bounded
<1> HIDE DEF k, fits
<1>7. kept \in Seq(E) /\ Len(kept) = k /\ \A i \in 1..k : kept[i] = clipped[n - k + i]
  <2>1. kept = SubSeq(clipped, n - k + 1, n)
    BY <1>1 DEF LastOf
  <2>2. n - k + 1 \in 1..(n + 1)
    BY <1>1, <1>5
  <2> HIDE DEF clipped, E
  <2> QED BY <1>1, <1>5, <2>1, <2>2
<1>8. \A i \in 1..k : kept[i].role = "message" /\ kept[i].at = n - k + i
  <2>1. \A i \in 1..k : n - k + i \in 1..n
    BY <1>1, <1>5
  <2>2. \A i \in 1..n : clipped[i].role = "message" /\ clipped[i].at = i
    BY <1>1
  <2> HIDE DEF kept, clipped
  <2> QED BY <1>7, <2>1, <2>2
<1>9. Note \in E
  BY DEF Note
<1> HIDE DEF kept, E, clipped
<1> SUFFICES LET note == IF k < n THEN 1 ELSE 0 IN
           /\ \E S : Bounded(rung) \in Seq(S)
           /\ Len(Bounded(rung)) = note + k
           /\ k < n => Bounded(rung)[1] = Note
           /\ \A i \in (note + 1)..(note + k) :
                Bounded(rung)[i].role = "message" /\ Bounded(rung)[i].at = n - k + i - note
  <2>1. chat # <<>> => k > 0
    BY <1>1, <1>5 DEF FrameTyped
  <2> QED BY <1>5, <2>1
<1>10. CASE k < n
  <2>1. Bounded(rung) = <<Note>> \o kept
    BY <1>6, <1>7, <1>10
  <2>2. <<Note>> \in Seq(E) /\ Len(<<Note>>) = 1 /\ <<Note>>[1] = Note
    BY <1>9
  <2> DEFINE c == <<Note>> \o kept
  <2>3. /\ c \in Seq(E) /\ Len(c) = 1 + k
        /\ \A i \in 1..(1 + k) : c[i] = IF i <= 1 THEN <<Note>>[i] ELSE kept[i - 1]
    BY <1>7, <2>2, ConcatProperties
  <2> HIDE DEF c
  <2>4. c[1] = Note
    BY <1>5, <2>2, <2>3
  <2>5. \A i \in 2..(1 + k) : c[i].role = "message" /\ c[i].at = n - k + i - 1
    <3>1. \A i \in 2..(1 + k) : c[i] = kept[i - 1] /\ i - 1 \in 1..k
      BY <1>5, <2>3
    <3>2. \A i \in 2..(1 + k) : n - k + (i - 1) = n - k + i - 1
      BY <1>1, <1>5
    <3> QED BY <1>8, <3>1, <3>2
  <2> QED BY <1>10, <2>1, <2>3, <2>4, <2>5 DEF c
<1>11. CASE ~(k < n)
  <2>1. Bounded(rung) = kept
    BY <1>6, <1>7, <1>11
  <2> QED BY <1>1, <1>5, <1>7, <1>8, <1>11, <2>1
<1> QED BY <1>10, <1>11

\* The note is not counted.
LEMMA OmittedIs ==
  ASSUME FrameTyped, NEW rung, NEW frame, frame.context = Bounded(rung),
         frame.omitted = Omitted(Bounded(rung))
  PROVE  HistoryTold(frame)
<1> DEFINE n == Len(chat)
           b == Bounded(rung)
<1>1. PICK k \in 0..n :
           LET note == IF k < n THEN 1 ELSE 0 IN
           /\ chat # <<>> => k > 0
           /\ \E S : b \in Seq(S)
           /\ Len(b) = note + k
           /\ k < n => b[1] = Note
           /\ \A i \in (note + 1)..(note + k) : b[i].role = "message" /\ b[i].at = n - k + i - note
  BY BoundedIs
<1>2. n \in Nat
  BY DEF FrameTyped
<1>3. PICK S : b \in Seq(S)
  BY <1>1
<1>4. DOMAIN b = 1..Len(b) /\ (b # <<>> => Head(b) = b[1] /\ Len(Tail(b)) = Len(b) - 1) /\ (b = <<>> <=> Len(b) = 0)
  BY <1>3
<1>5. Note.role = "note"
  BY DEF Note
<1> HIDE DEF b
<1>6. Omitted(b) = n - k
  <2>1. CASE k < n
    <3>1. b # <<>> /\ Head(b).role = "note" /\ Len(Tail(b)) = k
      BY <1>1, <1>2, <1>4, <1>5, <2>1
    <3>2. Omitted(b) = n - Len(Tail(b))
      BY <3>1 DEF Omitted
    <3> QED BY <3>1, <3>2
  <2>2. CASE ~(k < n)
    <3>1. Len(b) = k /\ k = n
      BY <1>1, <1>2, <2>2
    <3>2. ~(b # <<>> /\ Head(b).role = "note")
      <4> SUFFICES ASSUME b # <<>> PROVE Head(b).role = "message"
        OBVIOUS
      <4>1. 1 \in 1..k
        BY <1>2, <1>4, <3>1
      <4>2. b[1].role = "message"
        BY <1>1, <2>2, <4>1
      <4> QED BY <1>4, <4>2
    <3>3. Omitted(b) = n - Len(b)
      BY <3>2 DEF Omitted
    <3> QED BY <3>1, <3>3
  <2> QED BY <2>1, <2>2
<1>7. frame.context = b /\ frame.omitted = n - k
  BY <1>6 DEF b
<1>8. CASE k < n
  <2>1. n - k > 0
    BY <1>2, <1>8
  <2>2. Len(b) = 1 + n - (n - k)
    BY <1>1, <1>2, <1>8
  <2>3. ASSUME NEW i \in DOMAIN b
        PROVE  IF i <= 1 THEN b[i] = Note ELSE b[i].role = "message" /\ b[i].at = (n - k) + i - 1
    BY <1>1, <1>2, <1>4, <1>8, <2>2, <2>3
  <2>4. n - k < n \/ chat = <<>>
    BY <1>1, <1>2
  <2> QED BY <1>7, <2>1, <2>2, <2>3, <2>4 DEF HistoryTold
<1>9. CASE ~(k < n)
  <2>1. n - k = 0 /\ k = n
    BY <1>2, <1>9
  <2>2. Len(b) = 0 + n - 0
    BY <1>1, <1>2, <1>9, <2>1
  <2>3. ASSUME NEW i \in DOMAIN b
        PROVE  b[i].role = "message" /\ b[i].at = 0 + i - 0 /\ ~(i <= 0)
    BY <1>1, <1>2, <1>4, <1>9, <2>1, <2>2, <2>3
  <2>4. 0 < n \/ chat = <<>>
    BY <1>1, <1>2, <2>1
  <2> QED BY <1>7, <2>1, <2>2, <2>3, <2>4 DEF HistoryTold
<1> QED BY <1>8, <1>9

\* Nothing is left out of results that fit as they are.
LEMMA NothingShrunk ==
  ASSUME FrameTyped
  PROVE  PayloadSize(Shrunk(0)) = partial + Sum([i \in DOMAIN results |-> 1 + results[i]])
<1>1. Shrunk(0).partial = partial /\ Shrunk(0).results = results
  <2>1. DOMAIN results \in SUBSET (Nat \ {0}) /\ results = [i \in DOMAIN results |-> results[i]]
    BY DEF FrameTyped
  <2>2. Shrunk(0).results = [i \in DOMAIN results |-> IF i <= 0 /\ results[i] > 0 THEN NoteSize ELSE results[i]]
    BY DEF Shrunk
  <2>3. \A i \in DOMAIN results : ~(i <= 0)
    BY <2>1
  <2>4. Shrunk(0).results = [i \in DOMAIN results |-> results[i]]
    BY <2>2, <2>3
  <2> QED BY <2>1, <2>4 DEF Shrunk
<1> QED BY <1>1 DEF PayloadSize

LEMMA ResumeTold ==
  ASSUME FrameTyped, NEW frame, frame.resume = ResumePayload, frame.of = results
  PROVE  ResultsTold(frame)
<1> DEFINE n == Len(results)
           all == partial + Sum([i \in DOMAIN results |-> 1 + results[i]])
           fitting == {k \in 0..n : PayloadSize(Shrunk(k)) <= ResumeLimit}
<1>1. n \in Nat /\ DOMAIN results = 1..n
  BY DEF FrameTyped
<1>2. PICK k \in 0..n :
         /\ ResumePayload.results = Shrunk(k).results
         /\ ResumePayload.left = Shrunk(k).left
         /\ k = 0 \/ 0 \notin fitting
  <2>1. CASE fitting = {}
    <3>1. ResumePayload = [Shrunk(n) EXCEPT !.partial = Smaller(@, ClippedText)]
      BY <2>1 DEF ResumePayload
    <3>2. ResumePayload.results = Shrunk(n).results /\ ResumePayload.left = Shrunk(n).left
      BY <3>1 DEF Shrunk
    <3> QED BY <1>1, <2>1, <3>2
  <2>2. CASE fitting # {}
    <3>1. ResumePayload = Shrunk(Min(fitting))
      BY <2>2, Zenon DEF ResumePayload
    <3>2. fitting \in SUBSET (0..n)
      OBVIOUS
    <3> HIDE DEF fitting
    <3>3. \E x \in fitting : \A y \in fitting : x <= y
      BY <1>1, <2>2, <3>2, Sums!HasSmallest
    <3>4. Min(fitting) \in fitting /\ \A y \in fitting : Min(fitting) <= y
      BY <3>3 DEF Min
    <3>5. Min(fitting) \in 0..n
      BY <3>2, <3>4
    <3>6. Min(fitting) = 0 \/ 0 \notin fitting
      BY <3>4, <3>5
    <3> QED BY <3>1, <3>5, <3>6
  <2> QED BY <2>1, <2>2
<1>3. Len(ResumePayload.results) = n
  <2>1. Shrunk(k).results = [i \in 1..n |-> IF i <= k /\ results[i] > 0 THEN NoteSize ELSE results[i]]
    BY <1>1 DEF Shrunk
  <2> QED BY <1>1, <1>2, <2>1
<1>4. Shrunk(k).left = {i \in 1..k : results[i] > 0}
  BY DEF Shrunk
<1>5. \A i \in ResumePayload.left : \A j \in 1..(i - 1) : results[j] > 0 => j \in ResumePayload.left
  BY <1>1, <1>2, <1>4
<1>6. ASSUME ResumePayload.left # {} PROVE Sum([i \in DOMAIN results |-> 1 + results[i]]) + partial > ResumeLimit
  <2>1. k # 0
    BY <1>2, <1>4, <1>6
  <2>2. ~(PayloadSize(Shrunk(0)) <= ResumeLimit)
    BY <1>1, <1>2, <2>1
  <2>3. ~(all <= ResumeLimit)
    BY <2>2, NothingShrunk
  <2>4. Sum([i \in DOMAIN results |-> 1 + results[i]]) \in Int
    <3> DEFINE sizes == [i \in 1..n |-> 1 + results[i]]
    <3>1. \A i \in 1..n : sizes[i] \in Int
      BY <1>1 DEF FrameTyped
    <3>2. DOMAIN sizes = 1..n
      OBVIOUS
    <3> HIDE DEF sizes
    <3>3. Sum(sizes) \in Int
      BY <1>1, <3>1, <3>2, SumTyped
    <3> QED BY <1>1, <3>3 DEF sizes
  <2>5. partial \in Nat /\ ResumeLimit \in Nat
    BY FrameLimitsAssumption DEF FrameTyped
  <2> HIDE DEF n
  <2> QED BY <2>3, <2>4, <2>5
<1> QED BY <1>3, <1>5, <1>6 DEF ResultsTold

LEMMA ChatStartTold ==
  ASSUME FrameTyped, NEW resume, resume = NoResume \/ resume = ResumePayload
  PROVE  FrameTold(ChatStart(resume))
<1> DEFINE SizeAt(rung) == query + PayloadSize(resume)
            + Escaping * Sum([i \in DOMAIN Bounded(rung) |-> Bounded(rung)[i].size])
           fitting == {i \in DOMAIN Rungs : SizeAt(Rungs[i]) <= Rungs[i].frame}
           context == Bounded(Rungs[Min(fitting)])
           full == [sent |-> TRUE, context |-> context, omitted |-> Omitted(context),
                    resume |-> resume, of |-> results]
<1>1. ChatStart(resume) = IF fitting = {} THEN TooLarge ELSE full
  BY Zenon DEF ChatStart
<1>2. TooLarge.sent = FALSE
  BY DEF TooLarge
<1>3. HistoryTold(full)
  <2>1. full.context = Bounded(Rungs[Min(fitting)]) /\ full.omitted = Omitted(Bounded(Rungs[Min(fitting)]))
    OBVIOUS
  <2> HIDE DEF full, fitting
  <2> QED BY <2>1, OmittedIs
<1>4. ResultsTold(full)
  <2>1. full.resume = resume /\ full.of = results
    OBVIOUS
  <2> HIDE DEF full
  <2>2. CASE resume = NoResume
    BY <2>1, <2>2 DEF ResultsTold
  <2>3. CASE resume = ResumePayload
    BY <2>1, <2>3, ResumeTold
  <2> QED BY <2>2, <2>3
<1> HIDE DEF full, fitting
<1> QED BY <1>1, <1>2, <1>3, <1>4 DEF FrameTold

\* A page has a line at least, and no more than fit when it has several.
LEMMA PageIs ==
  ASSUME FrameTyped, NEW first \in 1..Len(lines), NEW stop \in first..Len(lines)
  PROVE  LET page == PageFrom(first, stop) IN
         /\ page \in [start : Nat, end : 1..Len(lines), more : BOOLEAN]
         /\ page.start = first /\ page.end \in first..Len(lines)
         /\ page.more <=> page.end # Len(lines)
         /\ page.end > page.start => Sum(SubSeq(lines, page.start, page.end)) <= ReadLimit
<1> DEFINE n == Len(lines)
           Fits(k) == k <= 1 \/ Sum([i \in 1..k |-> lines[first + i - 1]]) <= ReadLimit
           ks == {m \in 0..(stop - first + 1) : \A l \in 1..m : Fits(l)}
           k == Max(ks)
<1>1. n \in Nat /\ DOMAIN lines = 1..n /\ first \in Nat /\ stop \in Nat /\ stop - first + 1 \in 0..n
  BY DEF FrameTyped
<1>2. ks \in SUBSET (0..n) /\ 1 \in ks
  <2>1. Fits(1)
    OBVIOUS
  <2>2. 1 \in 0..(stop - first + 1)
    BY <1>1
  <2>3. 0..(stop - first + 1) \subseteq 0..n
    BY <1>1
  <2> HIDE DEF Fits
  <2>4. \A l \in 1..1 : Fits(l)
    BY <2>1
  <2> QED BY <2>2, <2>3, <2>4
<1>3. k \in ks /\ k >= 1
  <2> HIDE DEF ks
  <2> QED BY <1>1, <1>2, MaxIn
<1>4. k \in 1..(stop - first + 1) /\ Fits(k)
  <2> HIDE DEF Fits, k
  <2> QED BY <1>1, <1>3
<1>5. PageFrom(first, stop) = [start |-> first, end |-> first + k - 1, more |-> first + k - 1 < n]
  BY Zenon DEF PageFrom
<1> HIDE DEF k, ks
<1>6. k > 1 => Sum(SubSeq(lines, first, first + k - 1)) <= ReadLimit
  <2> DEFINE piece == SubSeq(lines, first, first + k - 1)
             same == [i \in 1..k |-> lines[first + i - 1]]
  <2>1. first + k - 1 \in first..n /\ first + k - 1 - first + 1 = k /\ k \in Nat
    BY <1>1, <1>4
  <2>2. /\ piece \in Seq(Nat) /\ Len(piece) = k
        /\ \A i \in 1..k : piece[i] = lines[first + i - 1]
    <3> DEFINE final == first + k - 1
    <3>1. first \in Int /\ final \in Int /\ final <= n /\ first <= final /\ final - first + 1 = k
      BY <1>1, <1>4, <2>1
    <3>2. \A i \in first..final : lines[i] \in Nat
      BY <1>1, <3>1 DEF FrameTyped
    <3> HIDE DEF final
    <3>3. /\ SubSeq(lines, first, final) \in Seq(Nat) /\ Len(SubSeq(lines, first, final)) = k
          /\ \A i \in 1..k : SubSeq(lines, first, final)[i] = lines[first + i - 1]
      BY <3>1, <3>2, SubSeqProperties
    <3> QED BY <3>3 DEF final
  <2> HIDE DEF piece
  <2>3. piece = [i \in 1..k |-> piece[i]]
    BY <2>1, <2>2
  <2>4. piece = same
    BY <2>2, <2>3
  <2> HIDE DEF same
  <2>5. k > 1 => Sum(same) <= ReadLimit
    BY <1>4, <2>1 DEF same
  <2> QED BY <2>4, <2>5 DEF piece
<1> HIDE DEF Fits
<1>7. first + k - 1 \in first..n /\ first + k - 1 \in Nat
  BY <1>1, <1>4
<1>8. (first + k - 1 < n) <=> first + k - 1 # n
  BY <1>1, <1>7
<1>9. first + k - 1 > first => k > 1
  BY <1>1, <1>4
<1> DEFINE page == PageFrom(first, stop)
<1>10. page.start = first /\ page.end = first + k - 1 /\ page.more = (first + k - 1 < n)
  BY <1>5
<1>11. page \in [start : Nat, end : 1..Len(lines), more : BOOLEAN]
  <2>1. first + k - 1 \in 1..n
    BY <1>1, <1>7
  <2> QED BY <1>1, <1>5, <2>1
<1> HIDE DEF page
<1>12. page.end > page.start => Sum(SubSeq(lines, page.start, page.end)) <= ReadLimit
  BY <1>6, <1>9, <1>10
<1>13. page.more <=> page.end # n
  BY <1>8, <1>10
<1> QED BY <1>7, <1>10, <1>11, <1>12, <1>13 DEF page

LEMMA FrameStarts == FrameInit => FrameInv
<1> SUFFICES ASSUME FrameInit PROVE FrameInv
  OBVIOUS
<1>1. FrameTyped
  BY FrameLimitsAssumption DEF FrameInit, FrameTyped
<1>2. StartsTold /\ starts \in Seq(Range(starts))
  BY DEF FrameInit, StartsTold, Range
<1>3. PagesTyped /\ PagesAreTheFile
  BY DEF FrameInit, PagesTyped, PagesAreTheFile
<1> QED BY <1>1, <1>2, <1>3 DEF FrameInv

\* What is told does not change as long as the chat and the partial text do not.
LEMMA ToldStays ==
  ASSUME StartsTold, UNCHANGED <<chat, partial, starts>>
  PROVE  StartsTold'
BY DEF StartsTold, FrameTold, HistoryTold, ResultsTold

LEMMA AttemptKept == FrameInv /\ AttemptStarts => FrameInv'
<1> SUFFICES ASSUME FrameInv, AttemptStarts PROVE FrameInv'
  OBVIOUS
<1> DEFINE frame == ChatStart(IF starts = <<>> THEN NoResume ELSE ResumePayload)
           all == Range(starts) \cup {frame}
<1>1. UNCHANGED <<chat, query, partial, results, lines, pages>> /\ starts' = Append(starts, frame)
  BY DEF AttemptStarts
<1>2. FrameTyped' /\ PagesTyped' /\ PagesAreTheFile'
  BY <1>1 DEF FrameInv, FrameTyped, PagesTyped, PagesAreTheFile
<1>3. FrameTold(frame)
  BY ChatStartTold DEF FrameInv
<1> HIDE DEF frame
<1>4. starts \in Seq(all) /\ frame \in all
  BY SeqMonotonic DEF FrameInv
<1> HIDE DEF all
<1>5. /\ starts' \in Seq(all) /\ Len(starts') = Len(starts) + 1
      /\ \A i \in 1..Len(starts) : starts'[i] = starts[i]
      /\ starts'[Len(starts) + 1] = frame
  BY <1>1, <1>4, AppendProperties
<1>6. starts' \in Seq(Range(starts'))
  BY <1>5, SeqOfRange
<1>7. \A told \in Range(starts') : FrameTold(told)
  <2> SUFFICES ASSUME NEW i \in DOMAIN starts' PROVE FrameTold(starts'[i])
    BY DEF Range
  <2>1. Len(starts) \in Nat /\ DOMAIN starts = 1..Len(starts) /\ i \in 1..(Len(starts) + 1)
    BY <1>4, <1>5
  <2>2. CASE i = Len(starts) + 1
    BY <1>3, <1>5, <2>2
  <2>3. CASE i \in 1..Len(starts)
    BY <1>5, <2>1, <2>3 DEF FrameInv, StartsTold, Range
  <2> QED BY <2>1, <2>2, <2>3
<1>8. StartsTold'
  <2>1. \A told : FrameTold(told)' <=> FrameTold(told)
    BY <1>1 DEF FrameTold, HistoryTold, ResultsTold
  <2> QED BY <1>7, <2>1 DEF StartsTold
<1> QED BY <1>2, <1>6, <1>8 DEF FrameInv

LEMMA ToolKept == FrameInv /\ ToolRuns => FrameInv'
<1> SUFFICES ASSUME FrameInv, ToolRuns PROVE FrameInv'
  OBVIOUS
<1>1. PICK size \in Results : results' = Append(results, size)
  BY DEF ToolRuns
<1>2. UNCHANGED <<chat, query, partial, starts, lines, pages>>
  BY DEF ToolRuns
<1>3. results' \in Seq(Nat)
  BY <1>1, FrameLimitsAssumption DEF FrameInv, FrameTyped
<1>4. FrameTyped' /\ PagesTyped' /\ PagesAreTheFile' /\ (starts \in Seq(Range(starts)))'
  BY <1>2, <1>3 DEF FrameInv, FrameTyped, PagesTyped, PagesAreTheFile, Range
<1> QED BY <1>2, <1>4, ToldStays DEF FrameInv

\* A page that follows what was read before it.
LEMMA PageKept ==
  ASSUME FrameInv, UNCHANGED <<chat, query, partial, results, starts, lines>>,
         NEW page \in [start : Nat, end : 1..Len(lines), more : BOOLEAN], pages' = Append(pages, page),
         page.start = (IF pages = <<>> THEN 1 ELSE pages[Len(pages)].end + 1),
         page.end >= page.start, page.more <=> page.end # Len(lines),
         page.end > page.start => Sum(SubSeq(lines, page.start, page.end)) <= ReadLimit + HeaderSize
  PROVE  FrameInv'
<1>1. FrameTyped' /\ StartsTold' /\ (starts \in Seq(Range(starts)))'
  BY ToldStays DEF FrameInv, FrameTyped, Range
<1>2. /\ PagesTyped' /\ Len(pages) \in Nat /\ DOMAIN pages' = 1..(Len(pages) + 1)
      /\ \A i \in 1..Len(pages) : pages'[i] = pages[i] /\ i \in DOMAIN pages
      /\ pages'[Len(pages) + 1] = page /\ (pages = <<>> <=> Len(pages) = 0)
  BY DEF FrameInv, PagesTyped
<1>3. ASSUME NEW i \in DOMAIN pages'
      PROVE  /\ pages'[i].start = (IF i = 1 THEN 1 ELSE pages'[i - 1].end + 1)
             /\ pages'[i].end >= pages'[i].start
             /\ pages'[i].more <=> pages'[i].end # Len(lines)
             /\ pages'[i].end > pages'[i].start =>
                  Sum(SubSeq(lines, pages'[i].start, pages'[i].end)) <= ReadLimit + HeaderSize
  <2>1. CASE i = Len(pages) + 1
    <3>1. IF i = 1 THEN pages = <<>> ELSE pages # <<>> /\ pages'[i - 1] = pages[Len(pages)]
      BY <1>2, <2>1
    <3> QED BY <1>2, <2>1, <3>1
  <2>2. CASE i \in 1..Len(pages)
    <3>1. pages'[i] = pages[i] /\ i \in DOMAIN pages
      BY <1>2, <2>2
    <3>2. i # 1 => pages'[i - 1] = pages[i - 1]
      BY <1>2, <2>2
    <3> QED BY <3>1, <3>2 DEF FrameInv, PagesAreTheFile
  <2> QED BY <1>2, <2>1, <2>2
<1>4. PagesAreTheFile'
  BY <1>3 DEF PagesAreTheFile
<1> QED BY <1>1, <1>2, <1>4 DEF FrameInv

LEMMA FirstReadKept == FrameInv /\ FirstRead => FrameInv'
<1> SUFFICES ASSUME FrameInv, FirstRead PROVE FrameInv'
  OBVIOUS
<1> DEFINE n == Len(lines)
           page == IF Sum(lines) <= ReadLimit + HeaderSize
                   THEN [start |-> 1, end |-> n, more |-> FALSE] ELSE PageFrom(1, n)
<1>1. n \in Nat /\ n >= 1 /\ FrameTyped
  BY DEF FrameInv, FrameTyped
<1>2. UNCHANGED <<chat, query, partial, results, starts, lines>> /\ pages = <<>> /\ pages' = <<page>>
  BY DEF FirstRead
<1>3. ReadLimit \in Nat /\ HeaderSize \in Nat
  BY FrameLimitsAssumption
<1>4. /\ page \in [start : Nat, end : 1..Len(lines), more : BOOLEAN]
      /\ page.start = 1 /\ page.end >= 1
      /\ page.more <=> page.end # n
      /\ page.end > page.start => Sum(SubSeq(lines, page.start, page.end)) <= ReadLimit + HeaderSize
  <2>1. CASE Sum(lines) <= ReadLimit + HeaderSize
    <3>1. page = [start |-> 1, end |-> n, more |-> FALSE]
      BY <2>1
    <3>2. SubSeq(lines, 1, n) = lines
      <4>1. lines \in Seq(Nat)
        BY <1>1 DEF FrameTyped
      <4> QED BY <1>1, <4>1, SubSeqFull
    <3> HIDE DEF page
    <3>3. page.start = 1 /\ page.end = n /\ page.more = FALSE
      BY <3>1
    <3>4. page \in [start : Nat, end : 1..Len(lines), more : BOOLEAN]
      BY <1>1, <3>1
    <3>5. Sum(SubSeq(lines, page.start, page.end)) <= ReadLimit + HeaderSize
      BY <2>1, <3>2, <3>3
    <3> QED BY <1>1, <3>3, <3>4, <3>5
  <2>2. CASE ~(Sum(lines) <= ReadLimit + HeaderSize)
    <3>1. page = PageFrom(1, n)
      BY <2>2
    <3>2. 1 \in 1..n /\ n \in 1..n
      BY <1>1
    <3> HIDE DEF page
    <3>3. /\ page \in [start : Nat, end : 1..Len(lines), more : BOOLEAN]
          /\ page.start = 1 /\ page.end \in 1..n
          /\ page.more <=> page.end # n
          /\ page.end > page.start => Sum(SubSeq(lines, page.start, page.end)) <= ReadLimit
      BY <1>1, <3>1, <3>2, PageIs
    <3> DEFINE piece == SubSeq(lines, page.start, page.end)
    <3>4. piece \in Seq(Nat)
      <4>1. page.start \in 1..(n + 1) /\ page.end \in (page.start - 1)..n
        BY <1>1, <3>3
      <4> QED BY <1>1, <4>1 DEF FrameTyped
    <3> HIDE DEF piece
    <3>5. Sum(piece) \in Int
      <4>1. Len(piece) \in Nat /\ DOMAIN piece = 1..Len(piece) /\ \A i \in 1..Len(piece) : piece[i] \in Int
        BY <3>4
      <4> QED BY <4>1, SumTyped
    <3>6. page.end > page.start => Sum(piece) <= ReadLimit + HeaderSize
      BY <1>3, <3>3, <3>5 DEF piece
    <3> QED BY <3>3, <3>6 DEF piece
  <2> QED BY <2>1, <2>2
<1> HIDE DEF page
<1>5. pages' = Append(pages, page)
  BY <1>2
<1> QED BY <1>1, <1>2, <1>4, <1>5, PageKept

LEMMA NextReadKept == FrameInv /\ NextRead => FrameInv'
<1> SUFFICES ASSUME FrameInv, NextRead PROVE FrameInv'
  OBVIOUS
<1> DEFINE n == Len(lines)
           last == pages[Len(pages)]
           start == last.end + 1
<1>1. n \in Nat /\ FrameTyped /\ ReadLimit \in Nat /\ HeaderSize \in Nat
  <2>1. n \in Nat
    BY DEF FrameInv, FrameTyped
  <2> QED BY <2>1, FrameLimitsAssumption DEF FrameInv
<1>2. pages # <<>> /\ last.more /\ Len(pages) \in DOMAIN pages /\ last.end \in 1..n /\ Last(pages) = last
  <2>1. pages # <<>> /\ pages[Len(pages)].more /\ Last(pages) = pages[Len(pages)]
    BY DEF NextRead, Last
  <2>2. Len(pages) \in DOMAIN pages /\ pages[Len(pages)] \in [start : Nat, end : 1..n, more : BOOLEAN]
    <3> DEFINE Page == [start : Nat, end : 1..n, more : BOOLEAN]
    <3>1. pages \in Seq(Page)
      BY DEF FrameInv, PagesTyped
    <3> HIDE DEF Page
    <3>2. Len(pages) \in 1..Len(pages) /\ DOMAIN pages = 1..Len(pages)
      BY <2>1, <3>1
    <3>3. pages[Len(pages)] \in Page
      BY <3>1, <3>2
    <3> QED BY <3>2, <3>3 DEF Page
  <2> QED BY <2>1, <2>2
<1>3. UNCHANGED <<chat, query, partial, results, starts, lines>>
  BY DEF NextRead
<1>4. PICK stop \in start..n : pages' = Append(pages, PageFrom(start, stop))
  BY <1>2 DEF NextRead
<1>5. last.end # n
  BY <1>2 DEF FrameInv, PagesAreTheFile
<1>6. start \in 1..n /\ stop \in start..n
  BY <1>1, <1>2, <1>5
<1> DEFINE page == PageFrom(start, stop)
           piece == SubSeq(lines, page.start, page.end)
<1> HIDE DEF start, page
<1>7. /\ page \in [start : Nat, end : 1..Len(lines), more : BOOLEAN]
      /\ page.start = start /\ page.end \in start..n
      /\ page.more <=> page.end # n
      /\ page.end > page.start => Sum(piece) <= ReadLimit
  BY <1>1, <1>6, PageIs DEF page
<1>8. piece \in Seq(Nat)
  <2>1. page.start \in 1..(n + 1) /\ page.end \in (page.start - 1)..n
    BY <1>1, <1>6, <1>7
  <2> QED BY <1>1, <2>1 DEF FrameTyped
<1> HIDE DEF piece
<1>9. Sum(piece) \in Int
  <2>1. Len(piece) \in Nat /\ DOMAIN piece = 1..Len(piece) /\ \A i \in 1..Len(piece) : piece[i] \in Int
    BY <1>8
  <2> QED BY <2>1, SumTyped
<1>10. page.end > page.start => Sum(SubSeq(lines, page.start, page.end)) <= ReadLimit + HeaderSize
  BY <1>1, <1>7, <1>9 DEF piece
<1>11. page.end >= page.start
  BY <1>6, <1>7
<1>12. page.start = IF pages = <<>> THEN 1 ELSE pages[Len(pages)].end + 1
  BY <1>2, <1>7 DEF start
<1>13. pages' = Append(pages, page)
  BY <1>4 DEF page
<1> QED BY <1>3, <1>7, <1>10, <1>11, <1>12, <1>13, PageKept

\* The invariant implies the property, piece by piece.
LEMMA FrameInvImplies == FrameInv => LeftOutIsSaid
<1> SUFFICES ASSUME FrameInv PROVE LeftOutIsSaid
  OBVIOUS
<1>1. HistoryIsCounted
  BY DEF FrameInv, StartsTold, FrameTold, HistoryTold, HistoryIsCounted
<1>2. ResultsGoOldestFirst
  BY DEF FrameInv, StartsTold, FrameTold, ResultsTold, ResultsGoOldestFirst
<1> QED BY <1>1, <1>2 DEF FrameInv, LeftOutIsSaid

\* Messages of the history that are left out are counted, results replaced by a
\* note from the oldest on, and the lines of a file all read, page by page, for
\* every history, every ladder of limits and every file (bound_context,
\* omitted_messages, resume_payload, _read_text_window).
THEOREM LeftOutIsTold == FrameSpec => []LeftOutIsSaid
<1>1. FrameInv /\ [FrameNext]_frameVars => FrameInv'
  <2> SUFFICES ASSUME FrameInv, [FrameNext]_frameVars PROVE FrameInv'
    OBVIOUS
  <2>1. CASE AttemptStarts
    BY <2>1, AttemptKept
  <2>2. CASE ToolRuns
    BY <2>2, ToolKept
  <2>3. CASE FirstRead
    BY <2>3, FirstReadKept
  <2>4. CASE NextRead
    BY <2>4, NextReadKept
  <2>5. CASE UNCHANGED frameVars
    <3>1. FrameTyped' /\ PagesTyped' /\ PagesAreTheFile' /\ (starts \in Seq(Range(starts)))'
      BY <2>5 DEF FrameInv, FrameTyped, PagesTyped, PagesAreTheFile, Range, frameVars
    <3>2. StartsTold'
      BY <2>5, ToldStays DEF FrameInv, frameVars
    <3> QED BY <3>1, <3>2 DEF FrameInv
  <2> QED BY <2>1, <2>2, <2>3, <2>4, <2>5 DEF FrameNext
<1> QED BY <1>1, FrameStarts, FrameInvImplies, PTL DEF FrameSpec

----------------------------------------------------------------------------
(* Texts of a turn *)

HIDE BoundsAssumption

Joining(text, more) == text \o more
Joins == INSTANCE Folding WITH Op <- Joining

Keeping(own, chunk) == IF chunk = Echo THEN own ELSE Append(own, chunk)
Keeps == INSTANCE Folding WITH Op <- Keeping

LEMMA LeastIn ==
  ASSUME NEW n \in Nat, NEW S \in SUBSET (0..n), S # {}
  PROVE  Min(S) \in S
<1>1. \E x \in S : \A y \in S : x <= y
  BY Joins!HasSmallest
<1> QED BY <1>1 DEF Min

LEMMA FlatFolds == \A texts : Flat(texts) = Joins!Fold(<<>>, texts)
BY DEF Flat, Joining, FoldLeft, MapThenFoldSet, Max, Joins!Fold, Joins!Unfolded, Joins!Largest

LEMMA OwnFolds == \A text : Own(text) = Keeps!Fold(<<>>, text)
BY DEF Own, Keeping, FoldLeft, MapThenFoldSet, Max, Keeps!Fold, Keeps!Unfolded, Keeps!Largest

Text == Seq(Nat)

LEMMA FlatTyped == ASSUME NEW texts \in Seq(Text) PROVE Flat(texts) \in Text
<1>1. \A t \in Text, e \in Text : Joining(t, e) \in Text
  BY DEF Joining, Text
<1>2. Len(texts) \in Nat /\ DOMAIN texts = 1..Len(texts) /\ \A i \in 1..Len(texts) : texts[i] \in Text
  OBVIOUS
<1>3. <<>> \in Text
  BY DEF Text
<1>4. Joins!Fold(<<>>, texts) \in Text
  BY <1>1, <1>2, <1>3, Joins!FoldType
<1> QED BY <1>4, FlatFolds

LEMMA FlatAppend ==
  ASSUME NEW texts \in Seq(Text), NEW t \in Text PROVE Flat(Append(texts, t)) = Flat(texts) \o t
<1>1. Joins!Fold(<<>>, Append(texts, t)) = Joining(Joins!Fold(<<>>, texts), t)
  BY Joins!FoldAppend
<1> QED BY <1>1, FlatFolds DEF Joining

\* Empty texts add nothing.
LEMMA FlatBlanks ==
  ASSUME NEW texts \in Seq(Text), NEW n \in Nat, NEW longer, DOMAIN longer = 1..(Len(texts) + n),
         \A i \in 1..Len(texts) : longer[i] = texts[i],
         \A i \in 1..n : longer[Len(texts) + i] = <<>>
  PROVE  Flat(longer) = Flat(texts)
<1> DEFINE blanks == [i \in 1..n |-> <<>>]
           m == Len(texts)
<1>1. /\ m \in Nat /\ DOMAIN texts = 1..m /\ DOMAIN blanks = 1..n
      /\ DOMAIN longer = 1..(m + n) /\ \A i \in 1..m : longer[i] = texts[i]
  OBVIOUS
<1>2. \A i \in 1..n : longer[m + i] = blanks[i]
  OBVIOUS
<1>a. \A i \in 1..n : blanks[i] \in {<<>>}
  OBVIOUS
<1> HIDE DEF blanks, m
<1>3. Joins!Fold(<<>>, longer) = Joins!Fold(Joins!Fold(<<>>, texts), blanks)
  <2> SUFFICES ASSUME NEW k \in Nat, k = m PROVE Joins!Fold(<<>>, longer) = Joins!Fold(Joins!Fold(<<>>, texts), blanks)
    BY <1>1
  <2>1. DOMAIN texts = 1..k /\ DOMAIN longer = 1..(k + n) /\ DOMAIN blanks = 1..n
    BY <1>1
  <2>2. \A i \in 1..k : longer[i] = texts[i]
    BY <1>1
  <2>3. \A i \in 1..n : longer[k + i] = blanks[i]
    BY <1>2
  <2> QED BY <2>1, <2>2, <2>3, Joins!FoldConcat, SMTT(60)
<1>4. \A t \in {Flat(texts)}, e \in {<<>>} : Joining(t, e) \in {Flat(texts)}
  BY FlatTyped DEF Joining, Text
<1>5. Joins!Fold(Flat(texts), blanks) \in {Flat(texts)}
  <2>1. Flat(texts) \in {Flat(texts)}
    OBVIOUS
  <2> QED BY <1>1, <1>a, <1>4, <2>1, Joins!FoldType
<1> QED BY <1>3, <1>5, FlatFolds

LEMMA OwnTyped == ASSUME NEW text \in Text PROVE Own(text) \in Text
<1>1. \A t \in Text, e \in Nat : Keeping(t, e) \in Text
  BY DEF Keeping, Text
<1>2. Len(text) \in Nat /\ DOMAIN text = 1..Len(text) /\ \A i \in 1..Len(text) : text[i] \in Nat
  BY DEF Text
<1>3. <<>> \in Text
  BY DEF Text
<1>4. Keeps!Fold(<<>>, text) \in Text
  BY <1>1, <1>2, <1>3, Keeps!FoldType
<1> QED BY <1>4, OwnFolds

LEMMA OwnEmpty == Own(<<>>) = <<>>
<1>1. Keeps!Fold(<<>>, <<>>) = <<>>
  <2>1. DOMAIN <<>> = {}
    OBVIOUS
  <2> QED BY <2>1, Keeps!FoldEmpty
<1> QED BY <1>1, OwnFolds

LEMMA OwnAppend ==
  ASSUME NEW text \in Text, NEW chunk \in Nat PROVE Own(Append(text, chunk)) = Keeping(Own(text), chunk)
<1>1. Keeps!Fold(<<>>, Append(text, chunk)) = Keeping(Keeps!Fold(<<>>, text), chunk)
  BY Keeps!FoldAppend DEF Text
<1> QED BY <1>1, OwnFolds

\* A text without its echoes is the parts without theirs.
LEMMA OwnConcat ==
  ASSUME NEW a \in Text, NEW b \in Text PROVE Own(a \o b) = Own(a) \o Own(b)
<1> DEFINE P == {k \in Nat : \A t \in Text : Len(t) = k => Own(a \o t) = Own(a) \o Own(t)}
<1>1. 0 \in P
  <2> SUFFICES ASSUME NEW t \in Text, Len(t) = 0 PROVE Own(a \o t) = Own(a) \o Own(t)
    OBVIOUS
  <2>1. t = <<>> /\ a \o t = a
    BY DEF Text
  <2>2. Own(a) \o <<>> = Own(a)
    BY OwnTyped DEF Text
  <2> QED BY <2>1, <2>2, OwnEmpty
<1>2. ASSUME NEW k \in Nat, k \in P PROVE k + 1 \in P
  <2> SUFFICES ASSUME NEW t \in Text, Len(t) = k + 1 PROVE Own(a \o t) = Own(a) \o Own(t)
    OBVIOUS
  <2> DEFINE s == SubSeq(t, 1, k)
             e == t[k + 1]
  <2>1. s \in Text /\ Len(s) = k /\ e \in Nat /\ t = Append(s, e)
    BY DEF Text
  <2> HIDE DEF s, e
  <2>2. a \o t = Append(a \o s, e) /\ a \o s \in Text
    BY <2>1 DEF Text
  <2>3. Own(a \o s) = Own(a) \o Own(s)
    BY <1>2, <2>1
  <2>4. Own(a \o t) = Keeping(Own(a) \o Own(s), e)
    BY <2>1, <2>2, <2>3, OwnAppend
  <2>5. Own(t) = Keeping(Own(s), e)
    BY <2>1, OwnAppend
  <2>6. Own(a) \in Seq(Nat) /\ Own(s) \in Seq(Nat)
    BY <2>1, OwnTyped DEF Text
  <2>7. Keeping(Own(a) \o Own(s), e) = Own(a) \o Keeping(Own(s), e)
    <3>1. Append(Own(a) \o Own(s), e) = Own(a) \o Append(Own(s), e)
      <4>1. /\ Append(Own(a) \o Own(s), e) = (Own(a) \o Own(s)) \o <<e>>
            /\ Append(Own(s), e) = Own(s) \o <<e>> /\ <<e>> \in Seq(Nat)
        <5>1. Own(a) \o Own(s) \in Seq(Nat) /\ e \in Nat /\ <<e>> \in Seq(Nat)
          BY <2>1, <2>6
        <5> QED BY <2>6, <5>1, AppendIsConcat
      <4> QED BY <2>6, <4>1, ConcatAssociative
    <3> QED BY <3>1 DEF Keeping
  <2> QED BY <2>4, <2>5, <2>7
<1> HIDE DEF P
<1>3. Len(b) \in P
  <2>1. Len(b) \in Nat
    BY DEF Text
  <2> QED BY <1>1, <1>2, <2>1, Keeps!NatSet
<1> QED BY <1>3 DEF P

----------------------------------------------------------------------------
(* Requests and results of a call take turns *)

\* Every result has its request, every request its result or is open.
Paired(ms, n, open, c) ==
  /\ \A i \in 1..n : Answers(ms[i], c) => \E j \in 1..n : NextOf(ms, c, j, i) /\ Asks(ms[j], c)
  /\ \A i \in 1..n : Asks(ms[i], c) =>
       \/ \E j \in 1..n : NextOf(ms, c, i, j) /\ Answers(ms[j], c)
       \/ c \in open /\ NextOf(ms, c, i, n + 1)
  /\ c \in open => \E i \in 1..n : Asks(ms[i], c) /\ NextOf(ms, c, i, n + 1)

\* Which messages are of a call decides what comes next.
LEMMA NextAlike ==
  ASSUME NEW c, NEW n \in Nat, NEW ms, NEW others,
         \A i \in 1..n : (Asks(others[i], c) <=> Asks(ms[i], c)) /\ (Answers(others[i], c) <=> Answers(ms[i], c)),
         NEW i \in 1..n, NEW j \in 1..(n + 1)
  PROVE  NextOf(others, c, i, j) <=> NextOf(ms, c, i, j)
<1>1. \A k \in (i + 1)..(j - 1) : k \in 1..n
  OBVIOUS
<1> QED BY <1>1 DEF NextOf

LEMMA PairedAlike ==
  ASSUME NEW c, NEW n \in Nat, NEW ms, NEW others, NEW open, NEW opens, c \in open <=> c \in opens,
         \A i \in 1..n : (Asks(others[i], c) <=> Asks(ms[i], c)) /\ (Answers(others[i], c) <=> Answers(ms[i], c)),
         Paired(ms, n, open, c)
  PROVE  Paired(others, n, opens, c)
<1>1. \A i \in 1..n, j \in 1..(n + 1) : NextOf(others, c, i, j) <=> NextOf(ms, c, i, j)
  BY NextAlike
<1>2. n + 1 \in 1..(n + 1) /\ \A j \in 1..n : j \in 1..(n + 1)
  OBVIOUS
<1> QED BY <1>1, <1>2 DEF Paired

\* A message of another call.
LEMMA PairedOther ==
  ASSUME NEW c, NEW n \in Nat, NEW ms, NEW open, Paired(ms, n, open, c),
         ~Asks(ms[n + 1], c), ~Answers(ms[n + 1], c)
  PROVE  Paired(ms, n + 1, open, c)
<1>1. \A i \in 1..n : NextOf(ms, c, i, n + 1) => NextOf(ms, c, i, (n + 1) + 1)
  <2> SUFFICES ASSUME NEW i \in 1..n, NextOf(ms, c, i, n + 1), NEW k \in (i + 1)..(((n + 1) + 1) - 1)
               PROVE ~Asks(ms[k], c) /\ ~Answers(ms[k], c)
    BY DEF NextOf
  <2>1. k = n + 1 \/ k \in (i + 1)..((n + 1) - 1)
    OBVIOUS
  <2> QED BY <2>1 DEF NextOf
<1>2. \A i \in 1..(n + 1) : i = n + 1 \/ i \in 1..n
  OBVIOUS
<1>3. \A i \in 1..n : i \in 1..(n + 1)
  OBVIOUS
<1> QED BY <1>1, <1>2, <1>3 DEF Paired

\* A result of an open call.
LEMMA PairedAnswer ==
  ASSUME NEW c, NEW n \in Nat, NEW ms, NEW open, Paired(ms, n, open, c), c \in open,
         ~Asks(ms[n + 1], c), Answers(ms[n + 1], c), NEW opens, c \notin opens
  PROVE  Paired(ms, n + 1, opens, c)
<1>1. \A i \in 1..(n + 1) : i = n + 1 \/ i \in 1..n
  OBVIOUS
<1>2. \A i \in 1..n : i \in 1..(n + 1)
  OBVIOUS
<1>3. n + 1 \in 1..(n + 1)
  OBVIOUS
<1>4. \A i \in 1..(n + 1) : Answers(ms[i], c) => \E j \in 1..(n + 1) : NextOf(ms, c, j, i) /\ Asks(ms[j], c)
  BY <1>1, <1>2 DEF Paired
<1>5. \A i \in 1..(n + 1) : Asks(ms[i], c) => \E j \in 1..(n + 1) : NextOf(ms, c, i, j) /\ Answers(ms[j], c)
  BY <1>1, <1>2, <1>3 DEF Paired
<1> QED BY <1>4, <1>5 DEF Paired

\* A request of a call that is not open.
LEMMA PairedAsk ==
  ASSUME NEW c, NEW n \in Nat, NEW ms, NEW open, Paired(ms, n, open, c), c \notin open,
         Asks(ms[n + 1], c), ~Answers(ms[n + 1], c), NEW opens, c \in opens
  PROVE  Paired(ms, n + 1, opens, c)
<1>1. \A i \in 1..(n + 1) : i = n + 1 \/ i \in 1..n
  OBVIOUS
<1>2. \A i \in 1..n : i \in 1..(n + 1)
  OBVIOUS
<1>3. n + 1 \in 1..(n + 1)
  OBVIOUS
<1>4. NextOf(ms, c, n + 1, (n + 1) + 1)
  BY DEF NextOf
<1>5. \A i \in 1..(n + 1) : Answers(ms[i], c) => \E j \in 1..(n + 1) : NextOf(ms, c, j, i) /\ Asks(ms[j], c)
  BY <1>1, <1>2 DEF Paired
<1>6. \A i \in 1..(n + 1) : Asks(ms[i], c) =>
       \/ \E j \in 1..(n + 1) : NextOf(ms, c, i, j) /\ Answers(ms[j], c)
       \/ c \in opens /\ NextOf(ms, c, i, (n + 1) + 1)
  BY <1>1, <1>2, <1>4 DEF Paired
<1>7. \E i \in 1..(n + 1) : Asks(ms[i], c) /\ NextOf(ms, c, i, (n + 1) + 1)
  BY <1>3, <1>4
<1> QED BY <1>5, <1>6, <1>7 DEF Paired

\* A request that joins the last message: that was none of a call that is not open.
LEMMA PairedJoin ==
  ASSUME NEW c, NEW n \in Nat, NEW ms, NEW open, Paired(ms, n + 1, open, c), c \notin open,
         ~Answers(ms[n + 1], c)
  PROVE  Paired(ms, n, open, c)
<1>1. \A i \in 1..n : i \in 1..(n + 1)
  OBVIOUS
<1>2. \A i \in 1..(n + 1) : i = n + 1 \/ i \in 1..n
  OBVIOUS
<1>3. ~Asks(ms[n + 1], c)
  <2> SUFFICES ASSUME Asks(ms[n + 1], c) PROVE FALSE
    OBVIOUS
  <2>1. n + 1 \in 1..(n + 1)
    OBVIOUS
  <2>2. PICK j \in 1..(n + 1) : NextOf(ms, c, n + 1, j)
    BY <2>1 DEF Paired
  <2> QED BY <2>2 DEF NextOf
<1> QED BY <1>1, <1>2, <1>3 DEF Paired

----------------------------------------------------------------------------
(* The messages of the node *)

TurnMessages ==
  [kind : {"ai"}, text : Text, calls : Seq(CallIds)]
    \cup [kind : {"tool"}, call : CallIds, failed : BOOLEAN, rejected : BOOLEAN]

NodeSet == [additions : Seq(TurnMessages), text : Text, pending : Seq(CallIds)]

OnceEach(q) == \A i, j \in 1..Len(q) : q[i] = q[j] => i = j
OpenCalls(q) == {q[i] : i \in 1..Len(q)}

\* Until the turn ends, the assistant's messages are those that ask for calls.
Asking(ms) == \A i \in 1..Len(ms) : ms[i].kind = "ai" => \E c \in CallIds : Asks(ms[i], c)

\* Every call is answered or pending, and pending once.
NodeSound(n) ==
  /\ n \in NodeSet /\ OnceEach(n.pending) /\ Asking(n.additions)
  /\ \A c \in CallIds : Paired(n.additions, Len(n.additions), OpenCalls(n.pending), c)

\* What the node has been told: in its messages, and after them.
TextOf(n) == Own(Flat(AiTexts(n.additions))) \o Own(n.text)

LEMMA AiIs ==
  ASSUME NEW text \in Text, NEW calls \in Seq(CallIds)
  PROVE  /\ Ai(text, calls) \in TurnMessages
         /\ \A c : Asks(Ai(text, calls), c) <=> \E i \in 1..Len(calls) : calls[i] = c
         /\ \A c : ~Answers(Ai(text, calls), c)
BY DEF Ai, TurnMessages, Asks, Answers, Contains

LEMMA ToolIs ==
  ASSUME NEW call \in CallIds, NEW outcome
  PROVE  /\ ToolMessage(call, outcome) \in TurnMessages
         /\ ToolMessage(call, outcome).kind = "tool"
         /\ \A c : ~Asks(ToolMessage(call, outcome), c)
         /\ \A c : Answers(ToolMessage(call, outcome), c) <=> c = call
BY DEF ToolMessage, Failing, TurnMessages, Asks, Answers

LEMMA TextsTyped ==
  ASSUME NEW ms \in Seq(TurnMessages)
  PROVE  /\ AiTexts(ms) \in Seq(Text) /\ Len(AiTexts(ms)) = Len(ms)
         /\ \A i \in 1..Len(ms) : AiTexts(ms)[i] = IF ms[i].kind = "ai" THEN ms[i].text ELSE <<>>
<1> DEFINE m == Len(ms)
<1>1. m \in Nat /\ DOMAIN ms = 1..m /\ <<>> \in Text
  BY DEF Text
<1>2. \A i \in 1..m : (IF ms[i].kind = "ai" THEN ms[i].text ELSE <<>>) \in Text
  <2> SUFFICES ASSUME NEW i \in 1..m, ms[i].kind = "ai" PROVE ms[i].text \in Text
    BY <1>1
  <2>1. ms[i] \in TurnMessages
    OBVIOUS
  <2> QED BY <2>1 DEF TurnMessages
<1>3. AiTexts(ms) = [i \in 1..m |-> IF ms[i].kind = "ai" THEN ms[i].text ELSE <<>>]
  BY <1>1 DEF AiTexts
<1> HIDE DEF m
<1>4. [i \in 1..m |-> IF ms[i].kind = "ai" THEN ms[i].text ELSE <<>>] \in Seq(Text)
  BY <1>1, <1>2
<1> QED BY <1>1, <1>3, <1>4 DEF m

LEMMA FlatOfAppend ==
  ASSUME NEW ms \in Seq(TurnMessages), NEW m \in TurnMessages
  PROVE  Flat(AiTexts(Append(ms, m))) = Flat(AiTexts(ms)) \o (IF m.kind = "ai" THEN m.text ELSE <<>>)
<1> DEFINE t == IF m.kind = "ai" THEN m.text ELSE <<>>
           longer == Append(ms, m)
<1>1. t \in Text
  BY DEF TurnMessages, Text
<1>2. /\ longer \in Seq(TurnMessages) /\ Len(longer) = Len(ms) + 1 /\ longer[Len(ms) + 1] = m
      /\ \A i \in 1..Len(ms) : longer[i] = ms[i]
  OBVIOUS
<1>3. Len(ms) \in Nat
  OBVIOUS
<1> DEFINE texts == AiTexts(ms)
           more == AiTexts(longer)
<1>4. texts \in Seq(Text) /\ Len(texts) = Len(ms)
  BY TextsTyped
<1> HIDE DEF longer
<1>5. /\ more \in Seq(Text) /\ Len(more) = Len(ms) + 1 /\ more[Len(ms) + 1] = t
      /\ \A i \in 1..Len(ms) : more[i] = texts[i]
  <2>1. Len(ms) + 1 \in 1..(Len(ms) + 1) /\ \A i \in 1..Len(ms) : i \in 1..(Len(ms) + 1)
    BY <1>3
  <2> QED BY <1>2, <2>1, TextsTyped
<1> HIDE DEF texts, more, t
<1>6. more = Append(texts, t)
  BY <1>1, <1>3, <1>4, <1>5
<1>7. Flat(more) = Flat(texts) \o t
  BY <1>1, <1>4, <1>6, FlatAppend
<1> QED BY <1>7 DEF texts, more, t, longer

LEMMA NodeTexts ==
  ASSUME NEW n \in NodeSet
  PROVE  /\ Flat(AiTexts(n.additions)) \in Text /\ Own(Flat(AiTexts(n.additions))) \in Text
         /\ Own(n.text) \in Text /\ n.text \in Text
<1>1. n.additions \in Seq(TurnMessages) /\ n.text \in Text
  BY DEF NodeSet
<1> QED BY <1>1, TextsTyped, FlatTyped, OwnTyped

\* A chunk is added to what the node has been told.
LEMMA SaidKeeps ==
  ASSUME NEW n, NodeSound(n), NEW chunk \in Nat
  PROVE  NodeSound(Said(n, chunk)) /\ TextOf(Said(n, chunk)) = Keeping(TextOf(n), chunk)
         /\ Own(Said(n, chunk).text) = Keeping(Own(n.text), chunk)
<1>1. n \in NodeSet
  BY DEF NodeSound
<1>2. Said(n, chunk) = [additions |-> n.additions, text |-> Append(n.text, chunk), pending |-> n.pending]
  <2>1. n = [additions |-> n.additions, text |-> n.text, pending |-> n.pending]
    BY <1>1 DEF NodeSet
  <2> QED BY <2>1 DEF Said
<1>3. Said(n, chunk) \in NodeSet
  BY <1>1, <1>2 DEF NodeSet, Text
<1>4. NodeSound(Said(n, chunk))
  BY <1>2, <1>3 DEF NodeSound
<1>5. Own(Append(n.text, chunk)) = Keeping(Own(n.text), chunk)
  BY <1>1, OwnAppend, NodeTexts
<1> DEFINE a == Own(Flat(AiTexts(n.additions)))
           b == Own(n.text)
<1>6. a \in Seq(Nat) /\ b \in Seq(Nat)
  BY <1>1, NodeTexts DEF Text
<1> HIDE DEF a, b
<1>7. a \o Keeping(b, chunk) = Keeping(a \o b, chunk)
  <2>1. a \o Append(b, chunk) = Append(a \o b, chunk)
    <3>1. Append(b, chunk) = b \o <<chunk>> /\ <<chunk>> \in Seq(Nat) /\ a \o b \in Seq(Nat)
      BY <1>6
    <3>2. Append(a \o b, chunk) = (a \o b) \o <<chunk>>
      BY <3>1, AppendIsConcat
    <3> QED BY <1>6, <3>1, <3>2, ConcatAssociative
  <2> QED BY <2>1 DEF Keeping
<1> QED BY <1>2, <1>4, <1>5, <1>7 DEF TextOf, a, b

\* A message that is added takes the text before it along.
LEMMA AiAppended ==
  ASSUME NEW n \in NodeSet, NEW calls \in Seq(CallIds)
  PROVE  Own(Flat(AiTexts(Append(n.additions, Ai(n.text, calls))))) = TextOf(n)
<1>1. n.additions \in Seq(TurnMessages) /\ n.text \in Text
  BY DEF NodeSet
<1>2. Ai(n.text, calls) \in TurnMessages /\ Ai(n.text, calls).kind = "ai" /\ Ai(n.text, calls).text = n.text
  BY <1>1, AiIs DEF Ai
<1>3. Flat(AiTexts(Append(n.additions, Ai(n.text, calls)))) = Flat(AiTexts(n.additions)) \o n.text
  BY <1>1, <1>2, FlatOfAppend
<1> QED BY <1>1, <1>3, OwnConcat, NodeTexts DEF TextOf

LEMMA RequestedKeeps ==
  ASSUME NEW n, NodeSound(n), NEW call \in CallIds, ~Contains(n.pending, call)
  PROVE  NodeSound(Requested(n, call)) /\ TextOf(Requested(n, call)) = TextOf(n)
         /\ Requested(n, call).text = <<>> /\ Requested(n, call).additions # <<>>
<1> DEFINE ms == n.additions
           len == Len(ms)
           m == Requested(n, call)
           pending == Append(n.pending, call)
<1>1. n \in NodeSet /\ ms \in Seq(TurnMessages) /\ n.text \in Text /\ n.pending \in Seq(CallIds)
  BY DEF NodeSound, NodeSet
<1>2. len \in Nat /\ DOMAIN ms = 1..len
  BY <1>1
<1>3. pending \in Seq(CallIds) /\ OnceEach(pending)
      /\ \A c : c \in OpenCalls(pending) <=> c \in OpenCalls(n.pending) \/ c = call
  <2> DEFINE k == Len(n.pending)
  <2>1. /\ k \in Nat /\ pending \in Seq(CallIds) /\ Len(pending) = k + 1
        /\ \A i \in 1..k : pending[i] = n.pending[i]
        /\ pending[k + 1] = call
    BY <1>1
  <2>2. \A i \in 1..k : n.pending[i] # call
    BY <1>1 DEF Contains
  <2>3. OnceEach(n.pending)
    BY DEF NodeSound
  <2> HIDE DEF pending
  <2>4. OnceEach(pending)
    BY <2>1, <2>2, <2>3 DEF OnceEach
  <2>5. \A c : c \in OpenCalls(pending) <=> c \in OpenCalls(n.pending) \/ c = call
    BY <2>1 DEF OpenCalls
  <2> QED BY <2>1, <2>4, <2>5
<1>4. call \notin OpenCalls(n.pending)
  BY <1>1 DEF Contains, OpenCalls
<1> HIDE DEF pending
<1>5. \A c \in CallIds : Paired(ms, len, OpenCalls(n.pending), c)
  BY DEF NodeSound
<1>6. CASE JoinsBatch(n)
  <2>1. n.text = <<>> /\ ms # <<>> /\ Last(ms).kind = "ai" /\ len # 0
    BY <1>1, <1>6 DEF JoinsBatch
  <2> DEFINE longer == [ms EXCEPT ![len].calls = Append(@, call)]
             last == ms[len]
             joined == [last EXCEPT !.calls = Append(@, call)]
  <2>2. m = [additions |-> longer, text |-> <<>>, pending |-> pending]
    BY <1>6 DEF Requested, pending
  <2>3. len \in 1..len /\ last \in TurnMessages /\ last.kind = "ai"
    BY <1>1, <1>2, <2>1 DEF Last
  <2>4. last \in [kind : {"ai"}, text : Text, calls : Seq(CallIds)]
    BY <2>3 DEF TurnMessages
  <2> HIDE DEF last
  <2>5. joined = Ai(last.text, Append(last.calls, call))
    <3>1. last = [kind |-> "ai", text |-> last.text, calls |-> last.calls]
      BY <2>4
    <3> QED BY <3>1 DEF Ai
  <2> HIDE DEF joined
  <2>6. Append(last.calls, call) \in Seq(CallIds) /\ last = Ai(last.text, last.calls) /\ last.text \in Text
    BY <2>4 DEF Ai
  <2>7. joined \in TurnMessages
    <3>1. Ai(last.text, Append(last.calls, call)) \in TurnMessages
      BY <2>6, AiIs
    <3> QED BY <2>5, <3>1
  <2>8. longer = [i \in 1..len |-> IF i = len THEN joined ELSE ms[i]]
    BY <1>1, <1>2 DEF last, joined
  <2> HIDE DEF longer
  <2>9. longer \in Seq(TurnMessages) /\ Len(longer) = len
    <3>1. \A i \in 1..len : (IF i = len THEN joined ELSE ms[i]) \in TurnMessages
      BY <1>1, <1>2, <2>7
    <3>2. [i \in 1..len |-> IF i = len THEN joined ELSE ms[i]] \in Seq(TurnMessages)
      BY <1>2, <3>1
    <3> QED BY <1>2, <2>8, <3>2
  <2>10. \A c : Asks(joined, c) <=> Asks(last, c) \/ c = call
    <3>1. \A c : Asks(last, c) <=> \E i \in 1..Len(last.calls) : last.calls[i] = c
      BY <2>6, AiIs, <2>4
    <3>2. \A c : Asks(joined, c) <=> \E i \in 1..Len(Append(last.calls, call)) : Append(last.calls, call)[i] = c
      BY <2>5, <2>6, AiIs
    <3>3. last.calls \in Seq(CallIds)
      BY <2>4
    <3> QED BY <3>1, <3>2, <3>3
  <2>11. \A c : ~Answers(joined, c) /\ ~Answers(last, c)
    <3>1. \A c : ~Answers(Ai(last.text, Append(last.calls, call)), c)
      BY <2>6, AiIs
    <3>2. last.kind = "ai"
      BY <2>3
    <3> QED BY <2>5, <3>1, <3>2 DEF Answers
  <2>12. AiTexts(longer) = AiTexts(ms)
    <3>1. joined.kind = "ai" /\ joined.text = last.text
      BY <2>5 DEF Ai
    <3>2. DOMAIN longer = 1..len
      BY <2>8
    <3>3. \A i \in 1..len : (IF longer[i].kind = "ai" THEN longer[i].text ELSE <<>>)
                              = (IF ms[i].kind = "ai" THEN ms[i].text ELSE <<>>)
      BY <2>3, <2>8, <3>1 DEF last
    <3> QED BY <1>2, <3>2, <3>3 DEF AiTexts
  <2>13. ASSUME NEW c \in CallIds PROVE Paired(longer, Len(longer), OpenCalls(pending), c)
    <3>1. CASE c # call
      <4>1. \A i \in 1..len : (Asks(longer[i], c) <=> Asks(ms[i], c)) /\ (Answers(longer[i], c) <=> Answers(ms[i], c))
        BY <2>8, <2>10, <2>11, <3>1 DEF last
      <4>2. c \in OpenCalls(n.pending) <=> c \in OpenCalls(pending)
        BY <1>3, <3>1
      <4> QED BY <1>2, <1>5, <2>9, <4>1, <4>2, PairedAlike
    <3>2. CASE c = call
      <4> DEFINE k == len - 1
      <4>1. k \in Nat /\ k + 1 = len
        BY <1>2, <2>1
      <4>2. \A i \in 1..k : longer[i] = ms[i]
        BY <2>8, <4>1
      <4>3. longer[k + 1] = joined /\ ms[k + 1] = last
        BY <2>3, <2>8, <4>1 DEF last
      <4>4. Paired(ms, k + 1, OpenCalls(n.pending), c)
        BY <1>5, <4>1
      <4> HIDE DEF k
      <4>5. Paired(ms, k, OpenCalls(n.pending), c)
        BY <1>4, <2>11, <3>2, <4>1, <4>3, <4>4, PairedJoin
      <4>6. Paired(longer, k, OpenCalls(n.pending), c)
        BY <4>1, <4>2, <4>5, PairedAlike
      <4>7. Paired(longer, k + 1, OpenCalls(pending), c)
        <5>1. Asks(longer[k + 1], c) /\ ~Answers(longer[k + 1], c)
          BY <2>10, <2>11, <3>2, <4>3
        <5> QED BY <1>3, <1>4, <3>2, <4>1, <4>6, <5>1, PairedAsk
      <4> QED BY <2>9, <4>1, <4>7
    <3> QED BY <3>1, <3>2
  <2>14. m \in NodeSet
    BY <1>3, <2>2, <2>9 DEF NodeSet, Text
  <2>a. Asking(longer)
    <3> SUFFICES ASSUME NEW i \in 1..len, longer[i].kind = "ai" PROVE \E c \in CallIds : Asks(longer[i], c)
      BY <2>9 DEF Asking
    <3>1. CASE i = len
      BY <2>8, <2>10, <3>1
    <3>2. CASE i # len
      BY <2>8, <3>2 DEF NodeSound, Asking
    <3> QED BY <3>1, <3>2
  <2>15. NodeSound(m)
    BY <1>3, <2>2, <2>13, <2>14, <2>a DEF NodeSound
  <2>16. TextOf(m) = TextOf(n)
    BY <2>1, <2>2, <2>12 DEF TextOf
  <2>17. longer # <<>>
    BY <1>2, <2>1, <2>9
  <2> QED BY <2>2, <2>15, <2>16, <2>17
<1>7. CASE ~JoinsBatch(n)
  <2> DEFINE ask == Ai(n.text, <<call>>)
             longer == Append(ms, ask)
  <2>1. m = [additions |-> longer, text |-> <<>>, pending |-> pending]
    BY <1>7 DEF Requested, pending
  <2>2. /\ ask \in TurnMessages
        /\ \A c : Asks(ask, c) <=> c = call
        /\ \A c : ~Answers(ask, c)
    <3>1. <<call>> \in Seq(CallIds) /\ Len(<<call>>) = 1 /\ <<call>>[1] = call
      OBVIOUS
    <3>2. \A i \in 1..1 : i = 1
      OBVIOUS
    <3>3. 1 \in 1..1
      OBVIOUS
    <3> DEFINE calls == <<call>>
    <3> HIDE DEF calls
    <3>4. calls \in Seq(CallIds) /\ Len(calls) = 1 /\ calls[1] = call
      BY <3>1 DEF calls
    <3>5. /\ Ai(n.text, calls) \in TurnMessages
          /\ \A c : Asks(Ai(n.text, calls), c) <=> \E i \in 1..Len(calls) : calls[i] = c
          /\ \A c : ~Answers(Ai(n.text, calls), c)
      BY <1>1, <3>4, AiIs
    <3>6. ask = Ai(n.text, calls)
      BY DEF calls
    <3> QED BY <3>2, <3>3, <3>4, <3>5, <3>6
  <2>3. TextOf(m) = TextOf(n)
    <3>1. Own(Flat(AiTexts(longer))) = TextOf(n)
      <4> DEFINE calls == <<call>>
      <4>1. calls \in Seq(CallIds)
        OBVIOUS
      <4> HIDE DEF calls
      <4>2. Own(Flat(AiTexts(Append(n.additions, Ai(n.text, calls))))) = TextOf(n)
        BY <1>1, <4>1, AiAppended
      <4> QED BY <4>2 DEF calls
    <3>2. TextOf(n) \in Seq(Nat)
      BY <1>1, NodeTexts DEF TextOf, Text
    <3>3. TextOf(n) \o <<>> = TextOf(n)
      BY <3>2
    <3> HIDE DEF longer, m
    <3> QED BY <2>1, <3>1, <3>3, OwnEmpty DEF TextOf
  <2> HIDE DEF ask
  <2>4. /\ longer \in Seq(TurnMessages) /\ Len(longer) = len + 1 /\ longer[len + 1] = ask
        /\ \A i \in 1..len : longer[i] = ms[i]
    BY <1>1, <2>2
  <2> HIDE DEF longer
  <2>5. ASSUME NEW c \in CallIds PROVE Paired(longer, Len(longer), OpenCalls(pending), c)
    <3>1. Paired(longer, len, OpenCalls(n.pending), c)
      BY <1>2, <1>5, <2>4, PairedAlike
    <3>2. CASE c = call
      <4>1. c \notin OpenCalls(n.pending) /\ c \in OpenCalls(pending)
        BY <1>3, <1>4, <3>2
      <4>2. Asks(longer[len + 1], c) /\ ~Answers(longer[len + 1], c)
        BY <2>2, <2>4, <3>2
      <4> QED BY <1>2, <2>4, <3>1, <4>1, <4>2, PairedAsk
    <3>3. CASE c # call
      <4>1. ~Asks(longer[len + 1], c) /\ ~Answers(longer[len + 1], c)
        BY <2>2, <2>4, <3>3
      <4>2. Paired(longer, len + 1, OpenCalls(n.pending), c)
        BY <1>2, <3>1, <4>1, PairedOther
      <4>3. c \in OpenCalls(n.pending) <=> c \in OpenCalls(pending)
        BY <1>3, <3>3
      <4> QED BY <1>2, <2>4, <4>2, <4>3, PairedAlike
    <3> QED BY <3>2, <3>3
  <2>6. m \in NodeSet
    BY <1>3, <2>1, <2>4 DEF NodeSet, Text
  <2>a. Asking(longer)
    <3> SUFFICES ASSUME NEW i \in 1..(len + 1), longer[i].kind = "ai" PROVE \E c \in CallIds : Asks(longer[i], c)
      BY <2>4 DEF Asking
    <3>1. CASE i = len + 1
      BY <2>2, <2>4, <3>1
    <3>2. CASE i # len + 1
      <4>1. i \in 1..len
        BY <1>2, <3>2
      <4> QED BY <2>4, <4>1 DEF NodeSound, Asking
    <3> QED BY <3>1, <3>2
  <2>7. NodeSound(m)
    BY <1>3, <2>1, <2>5, <2>6, <2>a DEF NodeSound
  <2>8. longer # <<>>
    BY <1>2, <2>4
  <2> QED BY <2>1, <2>3, <2>7, <2>8
<1> QED BY <1>6, <1>7

\* A result of a pending call.
LEMMA AnsweredOnce ==
  ASSUME NEW ms \in Seq(TurnMessages), NEW open, NEW call \in CallIds, call \in open, NEW outcome,
         \A c \in CallIds : Paired(ms, Len(ms), open, c)
  PROVE  /\ Append(ms, ToolMessage(call, outcome)) \in Seq(TurnMessages)
         /\ Len(Append(ms, ToolMessage(call, outcome))) = Len(ms) + 1
         /\ \A c \in CallIds : Paired(Append(ms, ToolMessage(call, outcome)), Len(ms) + 1, open \ {call}, c)
         /\ Flat(AiTexts(Append(ms, ToolMessage(call, outcome)))) = Flat(AiTexts(ms))
         /\ Asking(ms) => Asking(Append(ms, ToolMessage(call, outcome)))
         /\ Append(ms, ToolMessage(call, outcome))[Len(ms) + 1].kind = "tool"
<1> DEFINE m == ToolMessage(call, outcome)
           longer == Append(ms, m)
           len == Len(ms)
<1>1. /\ m \in TurnMessages /\ m.kind = "tool" /\ \A c : ~Asks(m, c)
      /\ \A c : Answers(m, c) <=> c = call
  BY ToolIs
<1>2. len \in Nat
  OBVIOUS
<1> HIDE DEF m
<1>3. /\ longer \in Seq(TurnMessages) /\ Len(longer) = len + 1 /\ longer[len + 1] = m
      /\ \A i \in 1..len : longer[i] = ms[i]
  BY <1>1
<1>4. Flat(AiTexts(longer)) = Flat(AiTexts(ms))
  <2>1. Flat(AiTexts(longer)) = Flat(AiTexts(ms)) \o <<>>
    BY <1>1, FlatOfAppend
  <2>2. Flat(AiTexts(ms)) \in Seq(Nat)
    BY TextsTyped, FlatTyped DEF Text
  <2> HIDE DEF longer
  <2> QED BY <2>1, <2>2
<1> HIDE DEF longer
<1>5. ASSUME NEW c \in CallIds PROVE Paired(longer, len + 1, open \ {call}, c)
  <2>1. Paired(longer, len, open, c)
    BY <1>2, <1>3, PairedAlike
  <2>2. CASE c = call
    <3>1. c \in open /\ c \notin open \ {call} /\ ~Asks(longer[len + 1], c) /\ Answers(longer[len + 1], c)
      BY <1>1, <1>3, <2>2
    <3> QED BY <1>2, <2>1, <3>1, PairedAnswer
  <2>3. CASE c # call
    <3>1. ~Asks(longer[len + 1], c) /\ ~Answers(longer[len + 1], c)
      BY <1>1, <1>3, <2>3
    <3>2. Paired(longer, len + 1, open, c)
      BY <1>2, <2>1, <3>1, PairedOther
    <3>3. c \in open <=> c \in open \ {call}
      BY <2>3
    <3> QED BY <1>2, <3>2, <3>3, PairedAlike
  <2> QED BY <2>2, <2>3
<1>6. ASSUME Asking(ms) PROVE Asking(longer)
  <2> SUFFICES ASSUME NEW i \in 1..(len + 1), longer[i].kind = "ai" PROVE \E c \in CallIds : Asks(longer[i], c)
    BY <1>3 DEF Asking
  <2>1. i \in 1..len
    BY <1>1, <1>2, <1>3
  <2> QED BY <1>3, <1>6, <2>1 DEF Asking
<1> QED BY <1>1, <1>3, <1>4, <1>5, <1>6 DEF longer, m

\* What RemoveFirst leaves of a sequence without repetition.
LEMMA WithoutFirst ==
  ASSUME NEW S, NEW q \in Seq(S), NEW e, Contains(q, e), OnceEach(q)
  PROVE  /\ RemoveFirst(q, e) \in Seq(S) /\ OnceEach(RemoveFirst(q, e))
         /\ OpenCalls(RemoveFirst(q, e)) = OpenCalls(q) \ {e}
<1> DEFINE n == Len(q)
           rest == RemoveFirst(q, e)
<1>1. n \in Nat /\ DOMAIN q = 1..n
  OBVIOUS
<1>2. PICK k \in 1..n : q[k] = e /\ rest = SubSeq(q, 1, k - 1) \o SubSeq(q, k + 1, n)
  <2>1. \E i \in 1..n : q[i] = e
    BY DEF Contains
  <2> DEFINE I == {i \in 1..n : q[i] = e}
             k == SelectInSeq(q, LAMBDA v : v = e)
  <2>2. rest = RemoveAt(q, k)
    BY <2>1 DEF RemoveFirst
  <2>3. I # {} /\ I \in SUBSET (0..n)
    BY <1>1, <2>1
  <2>4. k = IF I # {} THEN Min(I) ELSE 0
    BY <1>1 DEF SelectInSeq
  <2> HIDE DEF I, k
  <2>5. k \in I
    BY <1>1, <2>3, <2>4, LeastIn
  <2> QED BY <2>2, <2>5 DEF RemoveAt, I
<1> DEFINE a == SubSeq(q, 1, k - 1)
           b == SubSeq(q, k + 1, n)
<1>3. a \in Seq(S) /\ Len(a) = k - 1 /\ \A i \in 1..(k - 1) : a[i] = q[i]
  <2>1. \A i \in 1..(k - 1) : q[i] \in S
    BY <1>1
  <2>2. k - 1 \in Int /\ (IF 1 <= k - 1 THEN k - 1 - 1 + 1 ELSE 0) = k - 1 /\ k - 1 - 1 + 1 = k - 1
    BY <1>1
  <2>3. \A i \in 1..(k - 1) : 1 + i - 1 = i
    OBVIOUS
  <2> QED BY <2>1, <2>2, <2>3, SubSeqProperties
<1>4. b \in Seq(S) /\ Len(b) = n - k /\ \A i \in 1..(n - k) : b[i] = q[k + i]
  <2> DEFINE first == k + 1
  <2>1. \A i \in (k + 1)..n : q[i] \in S
    BY <1>1
  <2>2. k + 1 \in Int /\ n \in Int /\ n - (k + 1) + 1 = n - k
        /\ (IF k + 1 <= n THEN n - (k + 1) + 1 ELSE 0) = n - k
    <3>1. k \in Int /\ k <= n /\ n \in Int
      BY <1>1
    <3>2. ~(k + 1 <= n) => k = n
      BY <3>1
    <3> QED BY <3>1, <3>2
  <2>3. \A i \in 1..(n - k) : first + i - 1 = k + i
    BY <1>1
  <2>4. first \in Int /\ n - first + 1 = n - k /\ (IF first <= n THEN n - first + 1 ELSE 0) = n - k
    BY <2>2
  <2>5. b = SubSeq(q, first, n) /\ \A i \in first..n : q[i] \in S
    BY <2>1
  <2> HIDE DEF first, b
  <2>6. /\ SubSeq(q, first, n) \in Seq(S) /\ Len(SubSeq(q, first, n)) = IF first <= n THEN n - first + 1 ELSE 0
        /\ \A i \in 1..(n - first + 1) : SubSeq(q, first, n)[i] = q[first + i - 1]
    <3>1. first \in Int
      BY <2>4
    <3>2. n \in Int
      BY <1>1
    <3>3. \A i \in first..n : q[i] \in S
      BY <2>5
    <3> HIDE DEF n
    <3> QED BY <3>1, <3>2, <3>3, SubSeqProperties
  <2> QED BY <2>3, <2>4, <2>5, <2>6
<1> HIDE DEF a, b
<1>5. rest = a \o b
  BY <1>2 DEF a, b
<1> HIDE DEF rest
<1>6. /\ rest \in Seq(S) /\ Len(rest) = n - 1
      /\ \A i \in 1..(n - 1) : rest[i] = IF i < k THEN q[i] ELSE q[i + 1]
  <2>1. /\ a \o b \in Seq(S) /\ Len(a \o b) = Len(a) + Len(b)
        /\ \A i \in 1..(Len(a) + Len(b)) : (a \o b)[i] = IF i <= Len(a) THEN a[i] ELSE b[i - Len(a)]
    BY <1>3, <1>4, ConcatProperties
  <2>2. Len(a) + Len(b) = n - 1
    BY <1>1, <1>3, <1>4
  <2>3. ASSUME NEW i \in 1..(n - 1) PROVE rest[i] = IF i < k THEN q[i] ELSE q[i + 1]
    <3>1. CASE i < k
      <4>1. i <= Len(a) /\ i \in 1..(k - 1)
        BY <1>1, <1>3, <3>1
      <4> QED BY <1>3, <1>5, <2>1, <2>2, <3>1, <4>1
    <3>2. CASE ~(i < k)
      <4>1. ~(i <= Len(a)) /\ i - Len(a) \in 1..(n - k) /\ k + (i - Len(a)) = i + 1
        BY <1>1, <1>3, <3>2
      <4> QED BY <1>4, <1>5, <2>1, <2>2, <3>2, <4>1
    <3> QED BY <3>1, <3>2
  <2> QED BY <1>5, <2>1, <2>2, <2>3
<1>7. OnceEach(rest)
  <2> SUFFICES ASSUME NEW i \in 1..(n - 1), NEW j \in 1..(n - 1), rest[i] = rest[j] PROVE i = j
    BY <1>6 DEF OnceEach
  <2> DEFINE Stand(l) == IF l < k THEN l ELSE l + 1
  <2>1. Stand(i) \in 1..n /\ Stand(j) \in 1..n /\ q[Stand(i)] = q[Stand(j)]
    BY <1>1, <1>6
  <2>2. Stand(i) = Stand(j)
    BY <2>1 DEF OnceEach
  <2> QED BY <1>1, <2>2
<1>8. OpenCalls(rest) \subseteq OpenCalls(q) \ {e}
  <2> SUFFICES ASSUME NEW i \in 1..(n - 1) PROVE rest[i] \in OpenCalls(q) \ {e}
    BY <1>6 DEF OpenCalls
  <2> DEFINE l == IF i < k THEN i ELSE i + 1
  <2>1. l \in 1..n /\ l # k /\ rest[i] = q[l]
    BY <1>1, <1>6
  <2>2. q[l] # e
    BY <1>2, <2>1 DEF OnceEach
  <2> HIDE DEF l
  <2> QED BY <2>1, <2>2 DEF OpenCalls
<1>9. OpenCalls(q) \ {e} \subseteq OpenCalls(rest)
  <2> SUFFICES ASSUME NEW l \in 1..n, q[l] # e PROVE q[l] \in OpenCalls(rest)
    BY DEF OpenCalls
  <2> DEFINE i == IF l < k THEN l ELSE l - 1
  <2>1. l # k
    BY <1>2
  <2>2. i \in 1..(n - 1) /\ (IF i < k THEN q[i] ELSE q[i + 1]) = q[l]
    BY <1>1, <2>1
  <2> HIDE DEF i
  <2>3. rest[i] = q[l]
    BY <1>6, <2>2
  <2> QED BY <1>6, <2>2, <2>3 DEF OpenCalls
<1> QED BY <1>6, <1>7, <1>8, <1>9 DEF rest

LEMMA AnsweredKeeps ==
  ASSUME NEW n, NodeSound(n), NEW call \in CallIds, Contains(n.pending, call), NEW outcome
  PROVE  NodeSound(Answered(n, call, outcome)) /\ TextOf(Answered(n, call, outcome)) = TextOf(n)
         /\ Answered(n, call, outcome).text = n.text
<1> DEFINE longer == Append(n.additions, ToolMessage(call, outcome))
           rest == RemoveFirst(n.pending, call)
           m == Answered(n, call, outcome)
<1>1. n \in NodeSet /\ n.additions \in Seq(TurnMessages) /\ n.pending \in Seq(CallIds) /\ OnceEach(n.pending)
  BY DEF NodeSound, NodeSet
<1>2. m = [additions |-> longer, text |-> n.text, pending |-> rest]
  <2>1. n = [additions |-> n.additions, text |-> n.text, pending |-> n.pending]
    BY <1>1 DEF NodeSet
  <2>2. m = [n EXCEPT !.additions = longer, !.pending = rest]
    BY DEF Answered
  <2> HIDE DEF longer, rest, m
  <2> QED BY <2>1, <2>2
<1>3. rest \in Seq(CallIds) /\ OnceEach(rest) /\ OpenCalls(rest) = OpenCalls(n.pending) \ {call}
  BY <1>1, WithoutFirst
<1>4. call \in OpenCalls(n.pending)
  BY <1>1 DEF Contains, OpenCalls
<1> HIDE DEF rest
<1>5. \A c \in CallIds : Paired(n.additions, Len(n.additions), OpenCalls(n.pending), c)
  BY DEF NodeSound
<1> DEFINE open == OpenCalls(n.pending)
<1> HIDE DEF open
<1>6. /\ longer \in Seq(TurnMessages) /\ Len(longer) = Len(n.additions) + 1
      /\ \A c \in CallIds : Paired(longer, Len(n.additions) + 1, open \ {call}, c)
      /\ Flat(AiTexts(longer)) = Flat(AiTexts(n.additions)) /\ Asking(longer)
  <2>1. call \in open /\ \A c \in CallIds : Paired(n.additions, Len(n.additions), open, c)
    BY <1>4, <1>5 DEF open
  <2>2. Asking(n.additions)
    BY DEF NodeSound
  <2> DEFINE ms == n.additions
  <2>3. ms \in Seq(TurnMessages) /\ Asking(ms) /\ \A c \in CallIds : Paired(ms, Len(ms), open, c)
    BY <1>1, <2>1, <2>2
  <2>4. /\ Append(ms, ToolMessage(call, outcome)) \in Seq(TurnMessages)
        /\ Len(Append(ms, ToolMessage(call, outcome))) = Len(ms) + 1
        /\ \A c \in CallIds : Paired(Append(ms, ToolMessage(call, outcome)), Len(ms) + 1, open \ {call}, c)
        /\ Flat(AiTexts(Append(ms, ToolMessage(call, outcome)))) = Flat(AiTexts(ms))
        /\ Asking(Append(ms, ToolMessage(call, outcome)))
    <3> HIDE DEF ms
    <3> QED BY <2>1, <2>3, AnsweredOnce
  <2> QED BY <2>4
<1> HIDE DEF longer
<1> HIDE DEF m
<1>7. m \in NodeSet
  <2>1. n.text \in Text
    BY <1>1 DEF NodeSet
  <2> QED BY <1>2, <1>3, <1>6, <2>1 DEF NodeSet
<1>8. NodeSound(m)
  BY <1>2, <1>3, <1>6, <1>7 DEF NodeSound, open
<1>9. TextOf(m) = TextOf(n) /\ m.text = n.text
  BY <1>2, <1>6 DEF TextOf
<1> QED BY <1>8, <1>9 DEF m

\* Every call that is pending is answered, in order.
LEMMA SettledKeeps ==
  ASSUME NEW n, NodeSound(n)
  PROVE  /\ NodeSound(CallsSettled(n)) /\ TextOf(CallsSettled(n)) = TextOf(n)
         /\ CallsSettled(n).text = n.text /\ CallsSettled(n).pending = <<>>
         /\ CallsSettled(n).additions = <<>> => n.additions = <<>>
<1> DEFINE ms == n.additions
           q == n.pending
           k == Len(q)
           Heard(l) == [i \in 1..l |-> ToolMessage(q[i], "error")]
           Left(l) == {q[i] : i \in (l + 1)..k}
           s == CallsSettled(n)
           P == {l \in Nat : l <= k =>
                   /\ ms \o Heard(l) \in Seq(TurnMessages)
                   /\ Len(ms \o Heard(l)) = Len(ms) + l
                   /\ \A c \in CallIds : Paired(ms \o Heard(l), Len(ms \o Heard(l)), Left(l), c)
                   /\ Flat(AiTexts(ms \o Heard(l))) = Flat(AiTexts(ms))
                   /\ Asking(ms \o Heard(l))}
<1>1. n \in NodeSet /\ ms \in Seq(TurnMessages) /\ q \in Seq(CallIds) /\ OnceEach(q) /\ Asking(ms)
  BY DEF NodeSound, NodeSet
<1>2. k \in Nat /\ DOMAIN q = 1..k /\ \A i \in 1..k : q[i] \in CallIds
  BY <1>1
<1>3. s = [additions |-> ms \o Heard(k), text |-> n.text, pending |-> <<>>]
  <2>1. n = [additions |-> n.additions, text |-> n.text, pending |-> n.pending]
    BY <1>1 DEF NodeSet
  <2>2. s = [n EXCEPT !.additions = ms \o Heard(k), !.pending = <<>>]
    BY DEF CallsSettled
  <2> HIDE DEF s, Heard
  <2> QED BY <2>1, <2>2
<1>4. \A i \in 1..k : ToolMessage(q[i], "error") \in TurnMessages
  BY <1>2, ToolIs
<1>5. \A l \in 0..k : Heard(l) \in Seq(TurnMessages) /\ Len(Heard(l)) = l
  <2> SUFFICES ASSUME NEW l \in 0..k PROVE Heard(l) \in Seq(TurnMessages) /\ Len(Heard(l)) = l
    OBVIOUS
  <2>1. \A i \in 1..l : ToolMessage(q[i], "error") \in TurnMessages
    BY <1>2, <1>4
  <2>2. l \in Nat
    BY <1>2
  <2> QED BY <2>1, <2>2
<1>6. 0 \in P
  <2>1. Heard(0) = <<>>
    OBVIOUS
  <2>2. ms \o <<>> = ms
    BY <1>1
  <2>3. Left(0) = OpenCalls(q)
    BY DEF OpenCalls
  <2>4. \A c \in CallIds : Paired(ms, Len(ms), OpenCalls(q), c)
    BY DEF NodeSound
  <2>5. ms \o Heard(0) = ms
    BY <2>1, <2>2
  <2>6. Len(ms) + 0 = Len(ms)
    BY <1>1
  <2> HIDE DEF Heard, Left
  <2> QED BY <1>1, <2>3, <2>4, <2>5, <2>6
<1>7. ASSUME NEW l \in Nat, l \in P PROVE l + 1 \in P
  <2> SUFFICES ASSUME l + 1 <= k
               PROVE  /\ ms \o Heard(l + 1) \in Seq(TurnMessages)
                      /\ Len(ms \o Heard(l + 1)) = Len(ms) + (l + 1)
                      /\ \A c \in CallIds : Paired(ms \o Heard(l + 1), Len(ms \o Heard(l + 1)), Left(l + 1), c)
                      /\ Flat(AiTexts(ms \o Heard(l + 1))) = Flat(AiTexts(ms))
                      /\ Asking(ms \o Heard(l + 1))
    <3>1. l + 1 \in Nat
      OBVIOUS
    <3> HIDE DEF ms, k, Heard, Left
    <3> QED BY <3>1
  <2>1. l + 1 \in 1..k /\ l \in 0..k /\ l <= k
    BY <1>2
  <2> DEFINE call == q[l + 1]
             before == ms \o Heard(l)
             after == ms \o Heard(l + 1)
             m == ToolMessage(call, "error")
  <2>2. call \in CallIds /\ m \in TurnMessages
    BY <1>2, <1>4, <2>1
  <2>3. /\ before \in Seq(TurnMessages) /\ Len(before) = Len(ms) + l
        /\ \A c \in CallIds : Paired(before, Len(before), Left(l), c)
        /\ Flat(AiTexts(before)) = Flat(AiTexts(ms)) /\ Asking(before)
    BY <1>7, <2>1
  <2>4. after = Append(before, m)
    <3>1. Heard(l + 1) = Append(Heard(l), m)
      <4>1. \A i \in 1..(l + 1) : Heard(l + 1)[i] = IF i <= l THEN Heard(l)[i] ELSE m
        <5> SUFFICES ASSUME NEW i \in 1..(l + 1) PROVE Heard(l + 1)[i] = IF i <= l THEN Heard(l)[i] ELSE m
          OBVIOUS
        <5>1. Heard(l + 1)[i] = ToolMessage(q[i], "error")
          OBVIOUS
        <5>2. CASE i <= l
          BY <5>1, <5>2
        <5>3. CASE ~(i <= l)
          <6>1. i = l + 1
            BY <5>3
          <6> QED BY <5>1, <5>3, <6>1
        <5> QED BY <5>2, <5>3
      <4>2. l + 1 \in 0..k
        BY <2>1
      <4>3. /\ Heard(l + 1) \in Seq(TurnMessages) /\ Len(Heard(l + 1)) = l + 1
            /\ Heard(l) \in Seq(TurnMessages) /\ Len(Heard(l)) = l
        BY <1>5, <2>1, <4>2
      <4> HIDE DEF Heard, m
      <4> QED BY <2>2, <4>1, <4>3
    <3>2. Heard(l) \in Seq(TurnMessages)
      BY <1>5, <2>1
    <3> HIDE DEF Heard, m
    <3> DEFINE one == <<m>>
    <3>3. Append(Heard(l), m) = Heard(l) \o one /\ one \in Seq(TurnMessages)
      BY <2>2, <3>2, AppendIsConcat
    <3>4. Append(before, m) = before \o one
      BY <2>2, <2>3, AppendIsConcat
    <3> HIDE DEF one
    <3>5. (ms \o Heard(l)) \o one = ms \o (Heard(l) \o one)
      <4>1. ms \in Seq(TurnMessages) /\ Heard(l) \in Seq(TurnMessages) /\ one \in Seq(TurnMessages)
        BY <1>1, <3>2, <3>3
      <4> DEFINE told == Heard(l)
      <4> HIDE DEF ms, told
      <4>2. (ms \o told) \o one = ms \o (told \o one)
        BY <4>1, ConcatAssociative DEF told
      <4> QED BY <4>2 DEF told
    <3> QED BY <3>1, <3>3, <3>4, <3>5
  <2>5. Left(l + 1) = Left(l) \ {call} /\ call \in Left(l)
    <3>1. \A i \in (l + 1)..k : q[i] = call => i = l + 1
      BY <1>2, <1>1, <2>1 DEF OnceEach
    <3>2. \A i \in (l + 1)..k : i = l + 1 \/ i \in ((l + 1) + 1)..k
      OBVIOUS
    <3>3. \A i \in ((l + 1) + 1)..k : i \in (l + 1)..k /\ i # l + 1
      OBVIOUS
    <3>4. l + 1 \in (l + 1)..k
      BY <2>1
    <3> QED BY <3>1, <3>2, <3>3, <3>4
  <2> HIDE DEF before, after, Left, P, Heard
  <2> DEFINE open == Left(l)
  <2>6. call \in open /\ \A c \in CallIds : Paired(before, Len(before), open, c)
    BY <2>3, <2>5
  <2> HIDE DEF open, call
  <2>7. /\ Append(before, m) \in Seq(TurnMessages)
        /\ Len(Append(before, m)) = Len(before) + 1
        /\ \A c \in CallIds : Paired(Append(before, m), Len(before) + 1, open \ {call}, c)
        /\ Flat(AiTexts(Append(before, m))) = Flat(AiTexts(before))
        /\ Asking(Append(before, m))
    <3>1. before \in Seq(TurnMessages) /\ call \in CallIds /\ Asking(before)
      BY <2>2, <2>3
    <3> QED BY <2>6, <3>1, AnsweredOnce
  <2> HIDE DEF m
  <2>8. Len(after) = Len(before) + 1 /\ Len(after) = Len(ms) + (l + 1)
    <3>1. Len(ms) \in Nat
      BY <1>1
    <3> HIDE DEF ms
    <3> QED BY <2>3, <2>4, <2>7, <3>1
  <2>9. after \in Seq(TurnMessages) /\ Flat(AiTexts(after)) = Flat(AiTexts(ms)) /\ Asking(after)
    BY <2>3, <2>4, <2>7
  <2>10. \A c \in CallIds : Paired(after, Len(after), Left(l + 1), c)
    BY <2>4, <2>5, <2>7, <2>8 DEF open
  <2> QED BY <2>8, <2>9, <2>10 DEF after
<1> DEFINE all == ms \o Heard(k)
<1>8. /\ all \in Seq(TurnMessages) /\ Len(all) = Len(ms) + k
      /\ \A c \in CallIds : Paired(all, Len(all), Left(k), c)
      /\ Flat(AiTexts(all)) = Flat(AiTexts(ms)) /\ Asking(all)
  <2> HIDE DEF P
  <2>1. k \in P
    <3>1. \A l \in Nat : l \in P => l + 1 \in P
      BY <1>7
    <3>2. Nat \subseteq P
      BY <1>6, <3>1, Keeps!NatSet
    <3> QED BY <1>2, <3>2
  <2>2. k <= k
    BY <1>2
  <2> HIDE DEF k, ms, Heard, Left
  <2> QED BY <2>1, <2>2 DEF P
<1>9. Left(k) = OpenCalls(<<>>)
  <2>1. (k + 1)..k = {} /\ 1..Len(<<>>) = {}
    BY <1>2
  <2> QED BY <2>1 DEF OpenCalls
<1> HIDE DEF all, Heard, Left
<1>10. s = [additions |-> all, text |-> n.text, pending |-> <<>>]
  BY <1>3 DEF all
<1> HIDE DEF s
<1>11. s \in NodeSet
  BY <1>1, <1>8, <1>10 DEF NodeSet
<1>12. OnceEach(<<>>)
  BY DEF OnceEach
<1>13. NodeSound(s)
  BY <1>8, <1>9, <1>10, <1>11, <1>12 DEF NodeSound
<1>14. TextOf(s) = TextOf(n)
  BY <1>8, <1>10 DEF TextOf
<1>15. all = <<>> => ms = <<>>
  <2>1. all = <<>> => Len(all) = 0
    OBVIOUS
  <2>2. Len(ms) \in Nat /\ (Len(ms) = 0 => ms = <<>>)
    BY <1>1
  <2> HIDE DEF ms, k
  <2> QED BY <1>2, <1>8, <2>1, <2>2
<1> QED BY <1>10, <1>13, <1>14, <1>15 DEF s

\* The echoed copy of an error is no part of what the node has been told.
LEMMA EchoKeeps ==
  ASSUME NEW n, NodeSound(n)
  PROVE  /\ NodeSound(WithoutEcho(n)) /\ TextOf(WithoutEcho(n)) = TextOf(n)
         /\ Own(WithoutEcho(n).text) = Own(n.text)
<1> DEFINE m == WithoutEcho(n)
<1>1. n \in NodeSet /\ n.text \in Text
  BY DEF NodeSound, NodeSet
<1> SUFFICES ASSUME n.text # <<>>, Last(n.text) = Echo
             PROVE NodeSound(m) /\ TextOf(m) = TextOf(n) /\ Own(m.text) = Own(n.text)
  <2>1. CASE n.text # <<>> /\ Last(n.text) = Echo
    BY <2>1
  <2>2. CASE ~(n.text # <<>> /\ Last(n.text) = Echo)
    <3>1. m = n
      BY <2>2 DEF WithoutEcho
    <3> QED BY <3>1
  <2> QED BY <2>1, <2>2
<1> DEFINE t == n.text
           f == Front(t)
<1>2. m = [additions |-> n.additions, text |-> f, pending |-> n.pending]
  <2>1. n = [additions |-> n.additions, text |-> n.text, pending |-> n.pending]
    BY <1>1 DEF NodeSet
  <2>2. m = [n EXCEPT !.text = Front(@)]
    BY DEF WithoutEcho
  <2> HIDE DEF m
  <2> QED BY <2>1, <2>2
<1>3. f \in Text /\ t = Append(f, Echo)
  <2> DEFINE k == Len(t)
  <2>1. t \in Seq(Nat) /\ k \in Nat /\ k # 0
    BY <1>1 DEF Text
  <2>2. f = SubSeq(t, 1, k - 1)
    BY DEF Front
  <2>3. f \in Seq(Nat) /\ Len(f) = k - 1 /\ \A i \in 1..(k - 1) : f[i] = t[i]
    BY <2>1, <2>2
  <2>4. t[k] = Echo
    BY DEF Last
  <2>5. Echo \in Nat
    BY DEF Echo
  <2> HIDE DEF f, t
  <2>6. t = Append(f, Echo)
    <3> DEFINE g == Append(f, Echo)
    <3>1. /\ g \in Seq(Nat) /\ Len(g) = (k - 1) + 1 /\ g[(k - 1) + 1] = Echo
          /\ \A i \in 1..(k - 1) : g[i] = f[i]
      BY <2>3, <2>5
    <3>2. (k - 1) + 1 = k
      BY <2>1
    <3>3. \A i \in 1..k : i = k \/ i \in 1..(k - 1)
      BY <2>1
    <3> HIDE DEF g
    <3>4. Len(g) = Len(t) /\ \A i \in 1..Len(t) : g[i] = t[i]
      BY <2>3, <2>4, <3>1, <3>2, <3>3
    <3> QED BY <2>1, <3>1, <3>4 DEF g
  <2> QED BY <2>3, <2>6 DEF Text
<1> HIDE DEF f, m
<1>4. Own(f) = Own(t)
  <2>1. Own(Append(f, Echo)) = Keeping(Own(f), Echo)
    BY <1>3, OwnAppend DEF Echo
  <2> QED BY <1>3, <2>1 DEF Keeping
<1>5. m \in NodeSet
  BY <1>1, <1>2, <1>3 DEF NodeSet
<1>6. NodeSound(m)
  BY <1>2, <1>5 DEF NodeSound
<1> QED BY <1>2, <1>4, <1>6 DEF TextOf, m

LEMMA BrokenKeeps ==
  ASSUME NEW n, NodeSound(n), NEW onFinal \in BOOLEAN,
         NEW m, m = CallsSettled(IF onFinal THEN WithoutEcho(n) ELSE n)
  PROVE  NodeSound(m) /\ TextOf(m) = TextOf(n) /\ Own(m.text) = Own(n.text)
<1>1. CASE onFinal
  <2>1. m = CallsSettled(WithoutEcho(n))
    BY <1>1
  <2> QED BY <2>1, EchoKeeps, SettledKeeps
<1>2. CASE ~onFinal
  BY <1>2, SettledKeeps
<1> QED BY <1>1, <1>2

\* What a turn commits: every call answered, and what was said after them last.
NodeWhole(n) ==
  n.additions \in Seq(TurnMessages) /\ \A c \in CallIds : Paired(n.additions, Len(n.additions), {}, c)

LEMMA ResultKeeps ==
  ASSUME NEW n, NodeSound(n), NEW hidden
  PROVE  /\ NodeWhole(Result(n, hidden)) /\ Result(n, hidden).additions # <<>>
         /\ Own(Flat(AiTexts(Result(n, hidden).additions))) = TextOf(n)
         /\ Last(Result(n, hidden).additions).kind = "ai" =>
              Own(Last(Result(n, hidden).additions).text) = Own(n.text)
<1> DEFINE s == CallsSettled(n)
           ms == s.additions
           len == Len(ms)
           m == Result(n, hidden)
<1>1. /\ NodeSound(s) /\ TextOf(s) = TextOf(n) /\ s.text = n.text /\ s.pending = <<>>
  BY SettledKeeps
<1> HIDE DEF s
<1>2. s \in NodeSet /\ ms \in Seq(TurnMessages) /\ s.text \in Text /\ len \in Nat
  BY <1>1 DEF NodeSound, NodeSet
<1>3. \A c \in CallIds : Paired(ms, len, {}, c)
  <2>1. OpenCalls(<<>>) = {}
    BY DEF OpenCalls
  <2> QED BY <1>1, <2>1 DEF NodeSound
<1>4. CASE s.text # <<>> \/ ms = <<>> \/ hidden
  <2> DEFINE last == Ai(s.text, <<>>)
             all == Append(ms, last)
  <2>1. m.additions = all
    <3>1. m = [s EXCEPT !.additions = Append(@, last), !.text = <<>>]
      BY <1>4 DEF Result, s
    <3>2. s = [additions |-> ms, text |-> s.text, pending |-> s.pending]
      BY <1>2 DEF NodeSet
    <3> HIDE DEF last, m
    <3> QED BY <3>1, <3>2
  <2>2. <<>> \in Seq(CallIds) /\ \A c : ~\E i \in 1..Len(<<>>) : <<>>[i] = c
    OBVIOUS
  <2>3. last \in TurnMessages /\ \A c : ~Asks(last, c) /\ ~Answers(last, c)
    <3> DEFINE none == <<>>
    <3> HIDE DEF none
    <3>1. none \in Seq(CallIds) /\ \A c : ~\E i \in 1..Len(none) : none[i] = c
      BY <2>2 DEF none
    <3>2. /\ Ai(s.text, none) \in TurnMessages
          /\ \A c : Asks(Ai(s.text, none), c) <=> \E i \in 1..Len(none) : none[i] = c
          /\ \A c : ~Answers(Ai(s.text, none), c)
      BY <1>2, <3>1, AiIs
    <3> QED BY <3>1, <3>2 DEF none
  <2>4. Own(Flat(AiTexts(all))) = TextOf(s)
    <3> DEFINE none == <<>>
    <3> HIDE DEF none
    <3>1. none \in Seq(CallIds)
      BY <2>2 DEF none
    <3>2. Own(Flat(AiTexts(Append(s.additions, Ai(s.text, none))))) = TextOf(s)
      BY <1>2, <3>1, AiAppended
    <3> QED BY <3>2 DEF none
  <2>5. last.text = s.text
    BY DEF Ai
  <2> HIDE DEF last
  <2>6. /\ all \in Seq(TurnMessages) /\ Len(all) = len + 1 /\ all[len + 1] = last
        /\ \A i \in 1..len : all[i] = ms[i]
    BY <1>2, <2>3
  <2> HIDE DEF all, m
  <2>7. ASSUME NEW c \in CallIds PROVE Paired(all, len + 1, {}, c)
    <3>1. Paired(all, len, {}, c)
      BY <1>2, <1>3, <2>6, PairedAlike
    <3>2. ~Asks(all[len + 1], c) /\ ~Answers(all[len + 1], c)
      BY <2>3, <2>6
    <3> QED BY <1>2, <3>1, <3>2, PairedOther
  <2>8. NodeWhole(m)
    BY <2>1, <2>6, <2>7 DEF NodeWhole
  <2>9. Last(m.additions).text = n.text
    BY <1>1, <2>1, <2>5, <2>6 DEF Last
  <2>10. all # <<>>
    BY <1>2, <2>6
  <2> QED BY <1>1, <2>1, <2>4, <2>8, <2>9, <2>10 DEF m
<1>5. CASE ~(s.text # <<>> \/ ms = <<>> \/ hidden)
  <2>1. m = s
    BY <1>5 DEF Result, s
  <2>2. NodeWhole(s)
    BY <1>2, <1>3 DEF NodeWhole
  <2>3. TextOf(s) = Own(Flat(AiTexts(ms)))
    <3>1. Own(Flat(AiTexts(ms))) \in Seq(Nat)
      BY <1>2, NodeTexts DEF Text
    <3>2. Own(Flat(AiTexts(ms))) \o <<>> = Own(Flat(AiTexts(ms)))
      BY <3>1
    <3>3. TextOf(s) = Own(Flat(AiTexts(ms))) \o Own(<<>>)
      BY <1>5 DEF TextOf
    <3> QED BY <3>2, <3>3, OwnEmpty
  <2>4. Last(ms).kind # "ai"
    <3> SUFFICES ASSUME ms[len].kind = "ai" PROVE FALSE
      BY DEF Last
    <3>1. len \in 1..len
      BY <1>2, <1>5
    <3>2. PICK c \in CallIds : Asks(ms[len], c)
      BY <1>1, <3>1 DEF NodeSound, Asking
    <3>3. PICK j \in 1..len : NextOf(ms, c, len, j)
      BY <1>3, <3>1, <3>2 DEF Paired
    <3> QED BY <1>2, <3>3 DEF NextOf
  <2>5. ms # <<>>
    BY <1>5
  <2> HIDE DEF m
  <2> QED BY <1>1, <2>1, <2>2, <2>3, <2>4, <2>5 DEF m
<1> QED BY <1>4, <1>5

----------------------------------------------------------------------------
(* What the events tell *)

TurnEvents ==
  [type : {"text"}, key : {"none"}, val : Nat, turn : Nat, attempt : {NoAttempt}, seq : Nat]
    \cup [type : {"reasoning", "request", "result", "worker", "final", "error"}, key : Keys \cup {"none"},
          val : Nat \cup Outcomes \cup Reports \cup {"none"}, turn : Nat, attempt : {NoAttempt}, seq : Nat]

StreamedOf(events) ==
  [i \in DOMAIN events |-> IF events[i].type = "text" THEN <<events[i].val>> ELSE <<>>]

SinceStep(text, e) ==
  IF e.type = "request" THEN <<>> ELSE IF e.type = "text" THEN Append(text, e.val) ELSE text
Since == INSTANCE Folding WITH Op <- SinceStep
SinceOf(events) == Since!Fold(<<>>, events)

LEMMA SinceFolds == SinceLastRequest = SinceOf(recorded)
BY DEF SinceLastRequest, SinceOf, SinceStep, FoldLeft, MapThenFoldSet, Max, Since!Fold, Since!Unfolded, Since!Largest

LEMMA SinceTyped == ASSUME NEW es \in Seq(TurnEvents) PROVE SinceOf(es) \in Text
<1>1. \A t \in Text, e \in TurnEvents : SinceStep(t, e) \in Text
  <2> SUFFICES ASSUME NEW t \in Text, NEW e \in TurnEvents PROVE SinceStep(t, e) \in Text
    OBVIOUS
  <2>1. CASE e.type = "text"
    <3>1. e.val \in Nat
      BY <2>1 DEF TurnEvents
    <3> QED BY <2>1, <3>1 DEF SinceStep, Text
  <2>2. CASE e.type # "text"
    BY <2>2 DEF SinceStep, Text
  <2> QED BY <2>1, <2>2
<1>2. Len(es) \in Nat /\ DOMAIN es = 1..Len(es) /\ \A i \in 1..Len(es) : es[i] \in TurnEvents
  OBVIOUS
<1>3. <<>> \in Text
  BY DEF Text
<1>4. Since!Fold(<<>>, es) \in Text
  BY <1>1, <1>2, <1>3, Since!FoldType
<1> QED BY <1>4 DEF SinceOf

LEMMA StreamedTyped ==
  ASSUME NEW es \in Seq(TurnEvents)
  PROVE  /\ StreamedOf(es) \in Seq(Text) /\ Len(StreamedOf(es)) = Len(es)
         /\ \A i \in 1..Len(es) : StreamedOf(es)[i] = IF es[i].type = "text" THEN <<es[i].val>> ELSE <<>>
<1> DEFINE m == Len(es)
<1>1. m \in Nat /\ DOMAIN es = 1..m /\ <<>> \in Text
  BY DEF Text
<1>2. \A i \in 1..m : (IF es[i].type = "text" THEN <<es[i].val>> ELSE <<>>) \in Text
  <2> SUFFICES ASSUME NEW i \in 1..m, es[i].type = "text" PROVE <<es[i].val>> \in Text
    BY <1>1
  <2>1. es[i] \in TurnEvents
    OBVIOUS
  <2>2. es[i].val \in Nat
    BY <2>1 DEF TurnEvents
  <2> QED BY <2>2 DEF Text
<1>3. StreamedOf(es) = [i \in 1..m |-> IF es[i].type = "text" THEN <<es[i].val>> ELSE <<>>]
  BY <1>1 DEF StreamedOf
<1> HIDE DEF m
<1>4. [i \in 1..m |-> IF es[i].type = "text" THEN <<es[i].val>> ELSE <<>>] \in Seq(Text)
  BY <1>1, <1>2
<1> QED BY <1>1, <1>3, <1>4 DEF m

\* A chunk is what an event adds to the text; a request starts over.
LEMMA EventTells ==
  ASSUME NEW es \in Seq(TurnEvents), NEW e \in TurnEvents
  PROVE  /\ e.type = "text" =>
              /\ Own(Flat(StreamedOf(Append(es, e)))) = Keeping(Own(Flat(StreamedOf(es))), e.val)
              /\ Own(SinceOf(Append(es, e))) = Keeping(Own(SinceOf(es)), e.val)
         /\ e.type # "text" => Own(Flat(StreamedOf(Append(es, e)))) = Own(Flat(StreamedOf(es)))
         /\ e.type = "request" => SinceOf(Append(es, e)) = <<>>
         /\ e.type \notin {"text", "request"} => SinceOf(Append(es, e)) = SinceOf(es)
<1> DEFINE t == IF e.type = "text" THEN <<e.val>> ELSE <<>>
           longer == Append(es, e)
           texts == StreamedOf(es)
           more == StreamedOf(longer)
<1>1. e.type = "text" => e.val \in Nat
  BY DEF TurnEvents
<1>2. t \in Text
  BY <1>1 DEF Text
<1>3. /\ longer \in Seq(TurnEvents) /\ Len(longer) = Len(es) + 1 /\ longer[Len(es) + 1] = e
      /\ \A i \in 1..Len(es) : longer[i] = es[i]
  OBVIOUS
<1>4. Len(es) \in Nat
  OBVIOUS
<1>5. texts \in Seq(Text) /\ Len(texts) = Len(es)
  BY StreamedTyped
<1>6. SinceOf(longer) = SinceStep(SinceOf(es), e)
  BY Since!FoldAppend DEF SinceOf
<1> HIDE DEF longer
<1>7. /\ more \in Seq(Text) /\ Len(more) = Len(es) + 1 /\ more[Len(es) + 1] = t
      /\ \A i \in 1..Len(es) : more[i] = texts[i]
  <2>1. Len(es) + 1 \in 1..(Len(es) + 1) /\ \A i \in 1..Len(es) : i \in 1..(Len(es) + 1)
    BY <1>4
  <2> QED BY <1>3, <2>1, StreamedTyped
<1> HIDE DEF texts, more, t
<1>8. more = Append(texts, t)
  BY <1>2, <1>4, <1>5, <1>7
<1>9. Flat(more) = Flat(texts) \o t /\ Flat(texts) \in Text
  BY <1>2, <1>5, <1>8, FlatAppend, FlatTyped
<1>10. CASE e.type = "text"
  <2>1. t = <<e.val>> /\ e.val \in Nat
    BY <1>1, <1>10 DEF t
  <2>2. Flat(more) = Append(Flat(texts), e.val)
    BY <1>9, <2>1 DEF Text
  <2>3. Own(Flat(more)) = Keeping(Own(Flat(texts)), e.val)
    BY <1>9, <2>1, <2>2, OwnAppend
  <2>4. SinceOf(longer) = Append(SinceOf(es), e.val)
    BY <1>6, <1>10 DEF SinceStep
  <2>5. Own(SinceOf(longer)) = Keeping(Own(SinceOf(es)), e.val)
    BY <2>1, <2>4, OwnAppend, SinceTyped
  <2> QED BY <1>10, <2>3, <2>5 DEF more, texts, longer
<1>11. CASE e.type # "text"
  <2>1. Flat(more) = Flat(texts)
    BY <1>9, <1>11 DEF t, Text
  <2>2. SinceOf(longer) = IF e.type = "request" THEN <<>> ELSE SinceOf(es)
    BY <1>6, <1>11 DEF SinceStep
  <2> QED BY <1>11, <2>1, <2>2 DEF more, texts, longer
<1> QED BY <1>10, <1>11

----------------------------------------------------------------------------
(* The turn *)

\* While a turn runs its node is sound, and has been told what was streamed;
\* once it has ended it is whole.
TurnInv ==
  /\ recorded \in Seq(TurnEvents) /\ attempt \in Nat /\ sequence \in Nat
  /\ end \in {"none", "completed", "failed", "cancelled"}
  /\ end = "none" =>
       /\ NodeSound(node) /\ TextOf(node) = Own(Flat(StreamedOf(recorded)))
       /\ Own(node.text) = Own(SinceOf(recorded))
  /\ end # "none" =>
       /\ NodeWhole(node) /\ node.additions # <<>>
       /\ Own(Flat(AiTexts(node.additions))) = Own(Flat(StreamedOf(recorded)))
       /\ Last(node.additions).kind = "ai" => Own(Last(node.additions).text) = Own(SinceOf(recorded))

LEMMA TurnStarts == TranscriptInit => TurnInv
<1> SUFFICES ASSUME TranscriptInit PROVE TurnInv
  OBVIOUS
<1>1. /\ node = [additions |-> <<>>, text |-> <<>>, pending |-> <<>>] /\ recorded = <<>>
      /\ attempt = 1 /\ sequence = 0 /\ end = "none"
  BY DEF TranscriptInit
<1>2. NodeSound(node)
  <2>1. node \in NodeSet
    BY <1>1 DEF NodeSet, Text
  <2>2. OnceEach(<<>>) /\ Asking(<<>>) /\ OpenCalls(<<>>) = {}
    BY DEF OnceEach, Asking, OpenCalls
  <2>3. \A c : Paired(<<>>, 0, {}, c)
    BY DEF Paired
  <2>4. Len(<<>>) = 0
    OBVIOUS
  <2> QED BY <1>1, <2>1, <2>2, <2>3, <2>4 DEF NodeSound
<1>3. Flat(AiTexts(<<>>)) = <<>> /\ Flat(StreamedOf(<<>>)) = <<>>
  <2>1. DOMAIN AiTexts(<<>>) = {} /\ DOMAIN StreamedOf(<<>>) = {}
    BY DEF AiTexts, StreamedOf
  <2>2. Joins!Fold(<<>>, AiTexts(<<>>)) = <<>> /\ Joins!Fold(<<>>, StreamedOf(<<>>)) = <<>>
    BY <2>1, Joins!FoldEmpty
  <2> QED BY <2>2, FlatFolds
<1>4. SinceOf(<<>>) = <<>>
  <2>1. DOMAIN <<>> = {}
    OBVIOUS
  <2> QED BY <2>1, Since!FoldEmpty DEF SinceOf
<1>5. TextOf(node) = Own(Flat(StreamedOf(recorded)))
  <2>1. <<>> \o <<>> = <<>>
    OBVIOUS
  <2> QED BY <1>1, <1>3, <2>1, OwnEmpty DEF TextOf
<1> QED BY <1>1, <1>2, <1>4, <1>5 DEF TurnInv

LEMMA OtherTyped ==
  ASSUME TurnInv, NEW type \in {"reasoning", "request", "result", "worker", "final", "error"},
         NEW key \in Keys \cup {"none"}, NEW val \in Nat \cup Outcomes \cup Reports \cup {"none"}, NEW number \in Nat
  PROVE  FrameEvent(type, key, val, number) \in TurnEvents /\ FrameEvent(type, key, val, number).type = type
BY DEF TurnInv, FrameEvent, TurnEvents, NoAttempt, NoSequence

LEMMA TextTyped ==
  ASSUME TurnInv, NEW val \in Nat, NEW number \in Nat
  PROVE  /\ FrameEvent("text", "none", val, number) \in TurnEvents
         /\ FrameEvent("text", "none", val, number).type = "text" /\ FrameEvent("text", "none", val, number).val = val
BY DEF TurnInv, FrameEvent, TurnEvents, NoAttempt, NoSequence

\* An event of a turn that goes on, and what it adds to the node.
LEMMA EventKept ==
  ASSUME TurnInv, end = "none", end' = "none", attempt' \in Nat, sequence' \in Nat,
         NEW e \in TurnEvents, recorded' = Append(recorded, e), NodeSound(node'),
         \/ /\ e.type = "text" /\ TextOf(node') = Keeping(TextOf(node), e.val)
            /\ Own(node'.text) = Keeping(Own(node.text), e.val)
         \/ e.type = "request" /\ TextOf(node') = TextOf(node) /\ node'.text = <<>>
         \/ /\ e.type \notin {"text", "request"} /\ TextOf(node') = TextOf(node)
            /\ node'.text = node.text
  PROVE  TurnInv'
<1>1. /\ recorded \in Seq(TurnEvents) /\ TextOf(node) = Own(Flat(StreamedOf(recorded)))
      /\ Own(node.text) = Own(SinceOf(recorded))
  BY DEF TurnInv
<1>2. recorded' \in Seq(TurnEvents)
  BY <1>1
<1>3. /\ e.type = "text" =>
           /\ Own(Flat(StreamedOf(recorded'))) = Keeping(Own(Flat(StreamedOf(recorded))), e.val)
           /\ Own(SinceOf(recorded')) = Keeping(Own(SinceOf(recorded)), e.val)
      /\ e.type # "text" => Own(Flat(StreamedOf(recorded'))) = Own(Flat(StreamedOf(recorded)))
      /\ e.type = "request" => SinceOf(recorded') = <<>>
      /\ e.type \notin {"text", "request"} => SinceOf(recorded') = SinceOf(recorded)
  BY <1>1, EventTells
<1>4. TextOf(node') = Own(Flat(StreamedOf(recorded')))
  BY <1>1, <1>3
<1>5. Own(node'.text) = Own(SinceOf(recorded'))
  BY <1>1, <1>3
<1> QED BY <1>2, <1>4, <1>5 DEF TurnInv

\* The end of the turn: with an event that adds nothing, or with none.
LEMMA EndKept ==
  ASSUME TurnInv, end = "none", end' \in {"completed", "failed", "cancelled"},
         attempt' \in Nat, sequence' \in Nat,
         \/ recorded' = recorded
         \/ \E e \in TurnEvents : e.type \notin {"text", "request"} /\ recorded' = Append(recorded, e),
         NEW n, NodeSound(n), TextOf(n) = TextOf(node), Own(n.text) = Own(node.text),
         NEW hidden, node' = Result(n, hidden)
  PROVE  TurnInv'
<1>1. /\ recorded \in Seq(TurnEvents) /\ TextOf(node) = Own(Flat(StreamedOf(recorded)))
      /\ Own(node.text) = Own(SinceOf(recorded))
  BY DEF TurnInv
<1>2. /\ recorded' \in Seq(TurnEvents) /\ SinceOf(recorded') = SinceOf(recorded)
      /\ Own(Flat(StreamedOf(recorded'))) = Own(Flat(StreamedOf(recorded)))
  <2>1. CASE recorded' = recorded
    BY <1>1, <2>1
  <2>2. ASSUME NEW e \in TurnEvents, e.type \notin {"text", "request"}, recorded' = Append(recorded, e)
        PROVE  /\ recorded' \in Seq(TurnEvents) /\ SinceOf(recorded') = SinceOf(recorded)
               /\ Own(Flat(StreamedOf(recorded'))) = Own(Flat(StreamedOf(recorded)))
    <3>1. recorded' \in Seq(TurnEvents)
      BY <1>1, <2>2
    <3>2. e.type # "text"
      BY <2>2
    <3> QED BY <1>1, <2>2, <3>1, <3>2, EventTells
  <2> QED BY <2>1, <2>2
<1>3. /\ NodeWhole(node') /\ node'.additions # <<>> /\ Own(Flat(AiTexts(node'.additions))) = TextOf(n)
      /\ Last(node'.additions).kind = "ai" => Own(Last(node'.additions).text) = Own(n.text)
  BY ResultKeeps
<1> QED BY <1>1, <1>2, <1>3 DEF TurnInv

LEMMA TurnKept == TurnInv /\ [TranscriptNext]_transcriptVars => TurnInv'
<1> USE TranscriptAssumption
<1> SUFFICES ASSUME TurnInv, [TranscriptNext]_transcriptVars PROVE TurnInv'
  OBVIOUS
<1>1. attempt \in Nat /\ sequence \in Nat /\ sequence + 1 \in Nat
  BY DEF TurnInv
<1>2. end = "none" => NodeSound(node)
  BY DEF TurnInv
<1>3. ASSUME NEW type, NEW key, NEW val, NEW newFrame, Receive(type, key, val, newFrame)
      PROVE  /\ end = "none" /\ end' = "none" /\ attempt' \in Nat /\ sequence' \in Nat
             /\ \E number \in Nat : recorded' = Append(recorded, FrameEvent(type, key, val, number))
  BY <1>1, <1>3 DEF Receive, FrameMayCome, EmitEvent
<1>4. ASSUME NEW chunk \in {Chunk, Echo}, SpeakText(chunk) PROVE TurnInv'
  <2>1. Receive("text", "none", chunk, TRUE) /\ node' = Said(node, chunk)
    BY <1>4 DEF SpeakText
  <2>2. PICK number \in Nat : recorded' = Append(recorded, FrameEvent("text", "none", chunk, number))
    BY <1>3, <2>1
  <2>3. end = "none" /\ end' = "none" /\ attempt' \in Nat /\ sequence' \in Nat
    BY <1>3, <2>1
  <2>4. chunk \in Nat
    BY DEF Chunk, Echo, TurnInv
  <2> DEFINE e == FrameEvent("text", "none", chunk, number)
  <2>5. e \in TurnEvents /\ e.type = "text" /\ e.val = chunk
    BY <2>4, TextTyped
  <2>6. /\ NodeSound(node') /\ TextOf(node') = Keeping(TextOf(node), chunk)
        /\ Own(node'.text) = Keeping(Own(node.text), chunk)
    BY <1>2, <2>1, <2>3, <2>4, SaidKeeps
  <2> HIDE DEF e
  <2>7. recorded' = Append(recorded, e)
    BY <2>2 DEF e
  <2> QED BY <2>3, <2>5, <2>6, <2>7, EventKept
<1>5. ASSUME NEW newFrame \in Frames, Reason(newFrame) PROVE TurnInv'
  <2>1. Receive("reasoning", "none", Chunk, newFrame) /\ node' = node
    BY <1>5 DEF Reason
  <2>2. PICK number \in Nat : recorded' = Append(recorded, FrameEvent("reasoning", "none", Chunk, number))
    BY <1>3, <2>1
  <2>3. end = "none" /\ end' = "none" /\ attempt' \in Nat /\ sequence' \in Nat
    BY <1>3, <2>1
  <2>4. Chunk \in Nat
    BY DEF Chunk, TurnInv
  <2> DEFINE e == FrameEvent("reasoning", "none", Chunk, number)
  <2>5. e \in TurnEvents /\ e.type = "reasoning"
    BY <2>4, OtherTyped
  <2> HIDE DEF e
  <2>6. recorded' = Append(recorded, e)
    BY <2>2 DEF e
  <2> QED BY <1>2, <2>1, <2>3, <2>5, <2>6, EventKept
<1>6. ASSUME NEW call \in CallIds, NEW newFrame \in Frames, RequestTool(call, newFrame) PROVE TurnInv'
  <2>1. Receive("request", call, "none", newFrame) /\ node' = Requested(node, call) /\ ~Contains(node.pending, call)
    BY <1>6 DEF RequestTool
  <2>2. PICK number \in Nat : recorded' = Append(recorded, FrameEvent("request", call, "none", number))
    BY <1>3, <2>1
  <2>3. end = "none" /\ end' = "none" /\ attempt' \in Nat /\ sequence' \in Nat
    BY <1>3, <2>1
  <2> DEFINE e == FrameEvent("request", call, "none", number)
  <2>4. e \in TurnEvents /\ e.type = "request"
    <3>1. call \in Keys \cup {"none"}
      BY DEF Keys
    <3>2. "none" \in Nat \cup Outcomes \cup Reports \cup {"none"}
      OBVIOUS
    <3>3. "request" \in {"reasoning", "request", "result", "worker", "final", "error"}
      OBVIOUS
    <3> QED BY <3>1, <3>2, <3>3 DEF TurnInv, FrameEvent, TurnEvents, NoAttempt, NoSequence
  <2>5. NodeSound(node') /\ TextOf(node') = TextOf(node) /\ node'.text = <<>>
    BY <1>2, <2>1, <2>3, RequestedKeeps
  <2> HIDE DEF e
  <2>6. recorded' = Append(recorded, e)
    BY <2>2 DEF e
  <2> QED BY <2>3, <2>4, <2>5, <2>6, EventKept
<1>7. ASSUME NEW call \in CallIds, NEW outcome \in Outcomes, AnswerTool(call, outcome) PROVE TurnInv'
  <2>1. Receive("result", call, outcome, FALSE) /\ node' = Answered(node, call, outcome) /\ Contains(node.pending, call)
    BY <1>7 DEF AnswerTool
  <2>2. PICK number \in Nat : recorded' = Append(recorded, FrameEvent("result", call, outcome, number))
    BY <1>3, <2>1
  <2>3. end = "none" /\ end' = "none" /\ attempt' \in Nat /\ sequence' \in Nat
    BY <1>3, <2>1
  <2> DEFINE e == FrameEvent("result", call, outcome, number)
  <2>4. e \in TurnEvents /\ e.type = "result"
    <3>1. call \in Keys \cup {"none"}
      BY DEF Keys
    <3>2. outcome \in Nat \cup Outcomes \cup Reports \cup {"none"}
      OBVIOUS
    <3>3. "result" \in {"reasoning", "request", "result", "worker", "final", "error"}
      OBVIOUS
    <3> QED BY <3>1, <3>2, <3>3 DEF TurnInv, FrameEvent, TurnEvents, NoAttempt, NoSequence
  <2>5. NodeSound(node') /\ TextOf(node') = TextOf(node) /\ node'.text = node.text
    BY <1>2, <2>1, <2>3, AnsweredKeeps
  <2> HIDE DEF e
  <2>6. recorded' = Append(recorded, e)
    BY <2>2 DEF e
  <2> QED BY <2>3, <2>4, <2>5, <2>6, EventKept
<1>8. ASSUME NEW w \in Workers, NEW report \in Reports, NEW newFrame \in Frames, ReportWorker(w, report, newFrame)
      PROVE  TurnInv'
  <2>1. Receive("worker", w, report, newFrame) /\ node' = node
    BY <1>8 DEF ReportWorker
  <2>2. PICK number \in Nat : recorded' = Append(recorded, FrameEvent("worker", w, report, number))
    BY <1>3, <2>1
  <2>3. end = "none" /\ end' = "none" /\ attempt' \in Nat /\ sequence' \in Nat
    BY <1>3, <2>1
  <2> DEFINE e == FrameEvent("worker", w, report, number)
  <2>4. e \in TurnEvents /\ e.type = "worker"
    <3>1. w \in Keys \cup {"none"}
      BY DEF Keys
    <3>2. report \in Nat \cup Outcomes \cup Reports \cup {"none"}
      OBVIOUS
    <3>3. "worker" \in {"reasoning", "request", "result", "worker", "final", "error"}
      OBVIOUS
    <3> QED BY <3>1, <3>2, <3>3 DEF TurnInv, FrameEvent, TurnEvents, NoAttempt, NoSequence
  <2> HIDE DEF e
  <2>5. recorded' = Append(recorded, e)
    BY <2>2 DEF e
  <2> QED BY <1>2, <2>1, <2>3, <2>4, <2>5, EventKept
<1>9. ASSUME NEW continued \in BOOLEAN, FinalFrame(continued) PROVE TurnInv'
  <2> DEFINE e == FrameEvent("final", "none", "none", sequence + 1)
  <2>1. e \in TurnEvents /\ e.type = "final"
    <3>1. "final" \in {"reasoning", "request", "result", "worker", "final", "error"}
      OBVIOUS
    <3>2. "none" \in Keys \cup {"none"} /\ "none" \in Nat \cup Outcomes \cup Reports \cup {"none"}
      OBVIOUS
    <3> QED BY <1>1, <3>1, <3>2 DEF TurnInv, FrameEvent, TurnEvents, NoAttempt, NoSequence
  <2>2. end = "none" /\ recorded' = Append(recorded, e)
    BY <1>9 DEF FinalFrame, FrameMayCome, EmitEvent
  <2> HIDE DEF e
  <2>3. CASE continued
    <3>1. attempt' = attempt + 1 /\ sequence' = 0 /\ node' = node /\ end' = end
      BY <1>9, <2>3 DEF FinalFrame, NewAttempt
    <3> QED BY <1>1, <1>2, <2>1, <2>2, <3>1, EventKept
  <2>4. CASE ~continued
    <3>1. attempt' = attempt /\ sequence' = sequence /\ node' = Result(node, HasContext) /\ end' = "completed"
      BY <1>9, <2>4 DEF FinalFrame
    <3>2. e.type \notin {"text", "request"}
      BY <2>1
    <3> QED BY <1>1, <1>2, <2>1, <2>2, <3>1, <3>2, EndKept
  <2> QED BY <2>3, <2>4
<1>10. ASSUME NEW onFinal \in BOOLEAN, ResumeAttempt(onFinal) PROVE TurnInv'
  <2>1. end = "none" /\ end' = "none" /\ recorded' = recorded /\ attempt' = attempt + 1 /\ sequence' = 0
        /\ node' = CallsSettled(IF onFinal THEN WithoutEcho(node) ELSE node)
    BY <1>10 DEF ResumeAttempt, FrameMayCome, NewAttempt, Broken
  <2>2. NodeSound(node') /\ TextOf(node') = TextOf(node) /\ Own(node'.text) = Own(node.text)
    BY <1>2, <2>1, BrokenKeeps
  <2> QED BY <1>1, <2>1, <2>2 DEF TurnInv
<1>11. ASSUME NEW onFinal \in BOOLEAN, GiveUp(onFinal) PROVE TurnInv'
  <2> DEFINE e == FrameEvent("error", "none", "none", NoSequence)
             n == CallsSettled(IF onFinal THEN WithoutEcho(node) ELSE node)
  <2>1. e \in TurnEvents /\ e.type \notin {"text", "request"}
    BY OtherTyped DEF NoSequence
  <2>2. end = "none" /\ recorded' = Append(recorded, e) /\ attempt' = attempt /\ sequence' = sequence
        /\ node' = Result(n, TRUE) /\ end' = "failed"
    BY <1>11 DEF GiveUp, FrameMayCome, EmitEvent, Broken
  <2> HIDE DEF e
  <2>3. NodeSound(n) /\ TextOf(n) = TextOf(node) /\ Own(n.text) = Own(node.text)
    BY <1>2, <2>2, BrokenKeeps
  <2> HIDE DEF n
  <2> QED BY <1>1, <2>1, <2>2, <2>3, EndKept
<1>12. ASSUME StopCancelled PROVE TurnInv'
  <2> DEFINE n == CallsSettled(IF FALSE THEN WithoutEcho(node) ELSE node)
  <2>1. end = "none" /\ recorded' = recorded /\ attempt' = attempt /\ sequence' = sequence
        /\ node' = Result(n, TRUE) /\ end' = "cancelled"
    BY <1>12 DEF StopCancelled, Broken
  <2>2. NodeSound(n) /\ TextOf(n) = TextOf(node) /\ Own(n.text) = Own(node.text)
    BY <1>2, <2>1, BrokenKeeps
  <2> HIDE DEF n
  <2> QED BY <1>1, <2>1, <2>2, EndKept
<1>13. ASSUME UNCHANGED <<node, recorded, attempt, sequence, end>> PROVE TurnInv'
  BY <1>13 DEF TurnInv
<1>14. CASE AskCancel
  BY <1>13, <1>14 DEF AskCancel
<1>15. CASE CloseTurn
  BY <1>13, <1>15 DEF CloseTurn
<1>16. CASE UNCHANGED transcriptVars
  BY <1>13, <1>16 DEF transcriptVars
<1> QED BY <1>4, <1>5, <1>6, <1>7, <1>8, <1>9, <1>10, <1>11, <1>12, <1>14, <1>15, <1>16 DEF TranscriptNext

\* The messages a turn commits are a history the service accepts, with the text
\* that was streamed, for any calls, workers and number of attempts (_track,
\* settle_pending_tools, _drop_echoed_error, result).
THEOREM CommittedTurns == TranscriptSpec => []CommittedTurnIsWhole
<1>1. TurnInv => CommittedTurnIsWhole
  <2> SUFFICES ASSUME TurnInv, end # "none" PROVE CommittedTurnIsWhole
    BY DEF CommittedTurnIsWhole
  <2> DEFINE ms == node.additions
  <2>1. NodeWhole(node) /\ Own(Flat(AiTexts(ms))) = Own(Flat(StreamedOf(recorded)))
    BY DEF TurnInv
  <2>2. ms \in Seq(TurnMessages) /\ DOMAIN ms = 1..Len(ms)
    BY <2>1 DEF NodeWhole
  <2>3. Streamed = StreamedOf(recorded)
    BY DEF Streamed, StreamedOf
  <2>4. ASSUME NEW call \in CallIds, NEW i \in DOMAIN ms
        PROVE  /\ Asks(ms[i], call) => \E j \in DOMAIN ms : NextOf(ms, call, i, j) /\ Answers(ms[j], call)
               /\ Answers(ms[i], call) => \E j \in DOMAIN ms : NextOf(ms, call, j, i) /\ Asks(ms[j], call)
    BY <2>1, <2>2 DEF NodeWhole, Paired
  <2> QED BY <2>1, <2>3, <2>4 DEF CommittedTurnIsWhole
<1> QED BY <1>1, TurnStarts, TurnKept, PTL DEF TranscriptSpec

----------------------------------------------------------------------------
(* The screen and the payload fold the same events *)

FailStep(failed, e) == failed \/ e.type = "error"
Fails == INSTANCE Folding WITH Op <- FailStep

DigestStep(seen, e) ==
  IF e.type = "worker" /\ e.val # "keepalive" THEN [seen EXCEPT ![e.key] = Normalized(@, e.val)] ELSE seen
Digests == INSTANCE Folding WITH Op <- DigestStep

NoReports == [w \in Workers |-> "none"]

LEMMA FailFolds == \A events : TurnFailed(events) = Fails!Fold(FALSE, events)
BY DEF TurnFailed, FailStep, FoldLeft, MapThenFoldSet, Max, Fails!Fold, Fails!Unfolded, Fails!Largest

LEMMA DigestFolds == \A events : Digest(events) = Digests!Fold(NoReports, events)
BY DEF Digest, NoReports, DigestStep, FoldLeft, MapThenFoldSet, Max, Digests!Fold, Digests!Unfolded, Digests!Largest

LEMMA FailTyped == ASSUME NEW es \in Seq(TurnEvents) PROVE TurnFailed(es) \in BOOLEAN
<1>1. \A t \in BOOLEAN, e \in TurnEvents : FailStep(t, e) \in BOOLEAN
  BY DEF FailStep
<1>2. Len(es) \in Nat /\ DOMAIN es = 1..Len(es) /\ \A i \in 1..Len(es) : es[i] \in TurnEvents
  OBVIOUS
<1>3. FALSE \in BOOLEAN
  OBVIOUS
<1>4. Fails!Fold(FALSE, es) \in BOOLEAN
  BY <1>1, <1>2, <1>3, Fails!FoldType
<1> QED BY <1>4, FailFolds

LEMMA EventCounts ==
  ASSUME NEW es \in Seq(TurnEvents), NEW e \in TurnEvents
  PROVE  /\ TurnFailed(Append(es, e)) = FailStep(TurnFailed(es), e)
         /\ Digest(Append(es, e)) = DigestStep(Digest(es), e)
<1>1. Fails!Fold(FALSE, Append(es, e)) = FailStep(Fails!Fold(FALSE, es), e)
  <2>1. ASSUME NEW b PROVE Fails!Fold(b, Append(es, e)) = FailStep(Fails!Fold(b, es), e)
    BY Fails!FoldAppend
  <2> QED BY Zenon, <2>1
<1>2. Digests!Fold(NoReports, Append(es, e)) = DigestStep(Digests!Fold(NoReports, es), e)
  BY Digests!FoldAppend
<1>3. TurnFailed(Append(es, e)) = FailStep(TurnFailed(es), e)
  BY <1>1, FailFolds, Zenon
<1> QED BY <1>2, <1>3, DigestFolds

\* A step of the screen that changes neither what an error left nor the workers.
SameTale(s, t) ==
  /\ {"errorRendered", "workers"} \subseteq DOMAIN t
  /\ t.errorRendered = s.errorRendered /\ t.workers = s.workers

HasTale(s) == SameTale(s, s)

LEMMA TaleGoesOn == ASSUME NEW s, NEW t, NEW u, SameTale(s, t), SameTale(t, u) PROVE SameTale(s, u)
BY DEF SameTale

LEMMA RunTales ==
  ASSUME NEW s, HasTale(s)
  PROVE  /\ SameTale(s, InRun(s)) /\ SameTale(s, RunClosed(s)) /\ SameTale(s, StreamsClosed(s))
         /\ \A r : SameTale(s, MarkFailed(s, r))
         /\ SameTale(s, ActiveSettled(s))
<1>1. SameTale(s, InRun(s))
  BY DEF HasTale, SameTale, InRun
<1>2. SameTale(s, RunClosed(s))
  BY DEF HasTale, SameTale, RunClosed
<1>3. SameTale(s, StreamsClosed(s))
  BY DEF HasTale, SameTale, StreamsClosed
<1>4. \A r : SameTale(s, MarkFailed(s, r))
  BY DEF HasTale, SameTale, MarkFailed
<1>5. SameTale(s, ActiveSettled(s))
  BY DEF HasTale, SameTale, ActiveSettled
<1> QED BY <1>1, <1>2, <1>3, <1>4, <1>5

LEMMA TextTales ==
  ASSUME NEW s, HasTale(s), NEW chunk
  PROVE  SameTale(s, Speak(s, chunk)) /\ SameTale(s, Think(s, chunk))
<1>1. SameTale(s, Speak(s, chunk))
  <2> DEFINE t == IF s.assistant # 0 THEN s
                  ELSE [s EXCEPT !.texts = Append(@, <<>>), !.assistant = Len(s.texts) + 1]
  <2>1. SameTale(s, t)
    BY DEF HasTale, SameTale
  <2>2. Speak(s, chunk) = [t EXCEPT !.texts[t.assistant] = Append(@, chunk), !.thought = 0]
    BY Zenon DEF Speak
  <2> HIDE DEF t
  <2> QED BY <2>1, <2>2 DEF SameTale
<1>2. SameTale(s, Think(s, chunk))
  <2> DEFINE r == InRun(s)
             t == IF s.thought # 0 THEN s
                  ELSE [r EXCEPT !.thoughts = Append(@, <<>>), !.thought = Len(s.thoughts) + 1]
  <2>1. SameTale(s, t)
    <3>1. SameTale(s, r)
      BY RunTales
    <3> HIDE DEF r
    <3> QED BY <3>1 DEF HasTale, SameTale
  <2>2. Think(s, chunk) = [t EXCEPT !.thoughts[t.thought] = Append(@, chunk)]
    BY Zenon DEF Think
  <2> HIDE DEF t
  <2> QED BY <2>1, <2>2 DEF SameTale
<1> QED BY <1>1, <1>2

LEMMA CardTales ==
  ASSUME NEW s, HasTale(s), NEW key
  PROVE  /\ SameTale(s, AddCard(s, key))
         /\ \A status : SameTale(s, CardAnswered(s, key, status))
<1>1. SameTale(s, AddCard(s, key))
  <2> DEFINE t == InRun(s)
             cards == Append(t.cards, [key |-> key, status |-> "running", run |-> t.run])
  <2>1. SameTale(s, t)
    BY RunTales
  <2>2. AddCard(s, key) = [t EXCEPT !.cards = Append(@, [key |-> key, status |-> "running", run |-> t.run]),
                                    !.card[key] = Len(t.cards) + 1]
    BY Zenon DEF AddCard
  <2> HIDE DEF t
  <2> QED BY <2>1, <2>2 DEF SameTale
<1>2. ASSUME NEW status PROVE SameTale(s, CardAnswered(s, key, status))
  <2> DEFINE t == SetStatus(s, s.card[key], status)
  <2>1. SameTale(s, t)
    BY DEF HasTale, SameTale, SetStatus
  <2> HIDE DEF t
  <2>2. CardAnswered(s, key, status) =
          IF s.card[key] = 0 THEN s
          ELSE IF status = "success" THEN t ELSE MarkFailed(t, t.cards[s.card[key]].run)
    BY Zenon DEF CardAnswered, t
  <2>3. \A r : SameTale(t, MarkFailed(t, r))
    BY <2>1, RunTales DEF HasTale, SameTale
  <2>4. \A r : SameTale(s, MarkFailed(t, r))
    BY <2>1, <2>3, TaleGoesOn
  <2> QED BY <2>1, <2>2, <2>4 DEF HasTale
<1> QED BY <1>1, <1>2

LEMMA ErrorTale ==
  ASSUME NEW s, HasTale(s)
  PROVE  HasTale(ErrorDrawn(s)) /\ ErrorDrawn(s).errorRendered = TRUE /\ ErrorDrawn(s).workers = s.workers
<1> DEFINE t == ActiveSettled(s)
           u == RunClosed(MarkFailed(t, t.run))
<1>1. SameTale(s, t)
  BY RunTales
<1> HIDE DEF t
<1>2. SameTale(s, MarkFailed(t, t.run))
  <2>1. SameTale(t, MarkFailed(t, t.run))
    BY <1>1, RunTales DEF HasTale, SameTale
  <2> QED BY <1>1, <2>1, TaleGoesOn
<1>3. SameTale(s, u)
  <2> DEFINE v == MarkFailed(t, t.run)
  <2> HIDE DEF v
  <2>1. SameTale(s, v)
    BY <1>2 DEF v
  <2>2. SameTale(v, RunClosed(v))
    BY <2>1, RunTales DEF HasTale, SameTale
  <2> QED BY <2>1, <2>2, TaleGoesOn DEF v
<1>4. ErrorDrawn(s) = [u EXCEPT !.errorRendered = TRUE, !.errors = @ + 1]
  BY Zenon DEF ErrorDrawn, t
<1> HIDE DEF u
<1> QED BY <1>3, <1>4 DEF HasTale, SameTale

LEMMA WorkerTale ==
  ASSUME NEW s, HasTale(s), NEW w, NEW report
  PROVE  /\ HasTale(WorkerDrawn(s, w, report)) /\ WorkerDrawn(s, w, report).errorRendered = s.errorRendered
         /\ WorkerDrawn(s, w, report).workers = [s.workers EXCEPT ![w] = Normalized(@, report)]
<1> DEFINE status == Normalized(s.workers[w], report)
           t == IF s.card[w] = 0 THEN AddCard(s, w) ELSE InRun(s)
           i == t.card[w]
           drawn == IF status = "failed" THEN "error" ELSE status
           u == [t EXCEPT !.workers[w] = status, !.cards[i].status = drawn]
<1>1. SameTale(s, t)
  BY CardTales, RunTales
<1>2. WorkerDrawn(s, w, report) = IF status \in {"failed", "cancelled"} THEN MarkFailed(u, u.run) ELSE u
  BY Zenon DEF WorkerDrawn
<1>3. s.workers = t.workers
  BY <1>1 DEF SameTale
<1> HIDE DEF t, i, drawn, status
<1>4. HasTale(u) /\ u.errorRendered = s.errorRendered /\ u.workers = [s.workers EXCEPT ![w] = status]
  BY <1>1, <1>3 DEF SameTale, HasTale
<1> HIDE DEF u
<1>5. SameTale(u, MarkFailed(u, u.run))
  BY <1>4, RunTales
<1>6. [s.workers EXCEPT ![w] = status] = [s.workers EXCEPT ![w] = Normalized(@, report)]
  BY DEF status
<1> QED BY <1>2, <1>4, <1>5, <1>6 DEF SameTale, HasTale

\* What an event that is let through changes of the screen.
LEMMA DrawnTale ==
  ASSUME NEW s, HasTale(s), NEW e \in TurnEvents
  PROVE  /\ HasTale(Drawn(s, e))
         /\ Drawn(s, e).errorRendered = (IF e.type = "error" THEN TRUE ELSE s.errorRendered)
         /\ Drawn(s, e).workers = DigestStep(s.workers, e)
<1>1. e.type \in {"text", "reasoning", "request", "result", "worker", "final", "error"}
  BY DEF TurnEvents
<1>2. ASSUME NEW t, SameTale(s, t), e.type \notin {"worker", "error"}, Drawn(s, e) = t
      PROVE  /\ HasTale(Drawn(s, e))
             /\ Drawn(s, e).errorRendered = (IF e.type = "error" THEN TRUE ELSE s.errorRendered)
             /\ Drawn(s, e).workers = DigestStep(s.workers, e)
  BY <1>2 DEF SameTale, HasTale, DigestStep
<1>3. CASE e.type = "text"
  <2>1. Drawn(s, e) = Speak(RunClosed(s), e.val)
    BY <1>3 DEF Drawn
  <2> DEFINE r == RunClosed(s)
  <2>2. SameTale(s, r)
    BY RunTales
  <2> HIDE DEF r
  <2>3. SameTale(s, Speak(r, e.val))
    <3>1. SameTale(r, Speak(r, e.val))
      BY <2>2, TextTales DEF SameTale, HasTale
    <3> QED BY <2>2, <3>1, TaleGoesOn
  <2> QED BY <1>2, <1>3, <2>1, <2>3 DEF r
<1>4. CASE e.type = "reasoning"
  <2>1. Drawn(s, e) = Think(s, e.val)
    BY <1>4 DEF Drawn
  <2> QED BY <1>2, <1>4, <2>1, TextTales
<1>5. CASE e.type = "request"
  <2>1. Drawn(s, e) = AddCard(StreamsClosed(s), e.key)
    BY <1>5 DEF Drawn
  <2> DEFINE r == StreamsClosed(s)
  <2>2. SameTale(s, r)
    BY RunTales
  <2> HIDE DEF r
  <2>3. SameTale(s, AddCard(r, e.key))
    <3>1. SameTale(r, AddCard(r, e.key))
      BY <2>2, CardTales DEF SameTale, HasTale
    <3> QED BY <2>2, <3>1, TaleGoesOn
  <2> QED BY <1>2, <1>5, <2>1, <2>3 DEF r
<1>6. CASE e.type = "result"
  <2> DEFINE r == CardAnswered(s, e.key, Status(e.val))
  <2>1. Drawn(s, e) = StreamsClosed(r)
    BY <1>6 DEF Drawn
  <2>2. SameTale(s, r)
    BY CardTales
  <2> HIDE DEF r
  <2>3. SameTale(s, StreamsClosed(r))
    <3>1. SameTale(r, StreamsClosed(r))
      BY <2>2, RunTales DEF SameTale, HasTale
    <3> QED BY <2>2, <3>1, TaleGoesOn
  <2> QED BY <1>2, <1>6, <2>1, <2>3
<1>7. CASE e.type = "final"
  <2>1. Drawn(s, e) = RunClosed(s)
    BY <1>7 DEF Drawn
  <2> QED BY <1>2, <1>7, <2>1, RunTales
<1>8. CASE e.type = "error"
  <2>1. Drawn(s, e) = ErrorDrawn(s)
    BY <1>8 DEF Drawn
  <2> QED BY <1>8, <2>1, ErrorTale DEF DigestStep
<1>9. CASE e.type = "worker"
  <2>1. CASE e.val = "keepalive"
    <3>1. Drawn(s, e) = s
      BY <1>9, <2>1 DEF Drawn
    <3> QED BY <1>9, <2>1, <3>1 DEF DigestStep
  <2>2. CASE e.val # "keepalive"
    <3>1. Drawn(s, e) = WorkerDrawn(s, e.key, e.val)
      BY <1>9, <2>2 DEF Drawn
    <3>2. /\ HasTale(WorkerDrawn(s, e.key, e.val))
          /\ WorkerDrawn(s, e.key, e.val).errorRendered = s.errorRendered
          /\ WorkerDrawn(s, e.key, e.val).workers = [s.workers EXCEPT ![e.key] = Normalized(@, e.val)]
      <4> DEFINE w == e.key
                 report == e.val
      <4> HIDE DEF w, report
      <4>1. /\ HasTale(WorkerDrawn(s, w, report)) /\ WorkerDrawn(s, w, report).errorRendered = s.errorRendered
            /\ WorkerDrawn(s, w, report).workers = [s.workers EXCEPT ![w] = Normalized(@, report)]
        BY WorkerTale, SMT
      <4> QED BY <4>1, Zenon DEF w, report
    <3>3. DigestStep(s.workers, e) = [s.workers EXCEPT ![e.key] = Normalized(@, e.val)]
      BY <1>9, <2>2 DEF DigestStep
    <3>4. HasTale(Drawn(s, e))
      BY <3>1, <3>2
    <3>5. Drawn(s, e).errorRendered = s.errorRendered /\ e.type # "error"
      BY <1>9, <3>1, <3>2
    <3>6. Drawn(s, e).workers = DigestStep(s.workers, e)
      BY <3>1, <3>2, <3>3
    <3> QED BY <3>4, <3>5, <3>6
  <2> QED BY <2>1, <2>2
<1> QED BY <1>1, <1>3, <1>4, <1>5, <1>6, <1>7, <1>8, <1>9

\* An event without a number is let through.
LEMMA DrawTale ==
  ASSUME NEW s, HasTale(s), NEW e \in TurnEvents, e.seq = NoSequence
  PROVE  /\ HasTale(Draw(s, e))
         /\ Draw(s, e).errorRendered = (IF e.type = "error" THEN TRUE ELSE s.errorRendered)
         /\ Draw(s, e).workers = DigestStep(s.workers, e)
<1> DEFINE t == [s EXCEPT !.gate = Applied(@, e)]
<1>1. Accepts(s.gate, e)
  <2>1. e.attempt = NoAttempt
    BY DEF TurnEvents
  <2> QED BY <2>1 DEF Accepts, OlderAttempt
<1>2. Draw(s, e) = Drawn(t, e)
  BY <1>1 DEF Draw
<1>3. HasTale(t) /\ t.errorRendered = s.errorRendered /\ t.workers = s.workers
  BY DEF HasTale, SameTale
<1> HIDE DEF t
<1>4. /\ HasTale(Drawn(t, e))
      /\ Drawn(t, e).errorRendered = (IF e.type = "error" THEN TRUE ELSE t.errorRendered)
      /\ Drawn(t, e).workers = DigestStep(t.workers, e)
  BY <1>3, DrawnTale
<1>5. HasTale(Draw(s, e))
  BY <1>2, <1>4
<1>6. Draw(s, e).errorRendered = (IF e.type = "error" THEN TRUE ELSE s.errorRendered)
  BY <1>2, <1>3, <1>4
<1>7. Draw(s, e).workers = DigestStep(s.workers, e)
  BY <1>2, <1>3, <1>4
<1> QED BY <1>5, <1>6, <1>7

LEMMA FinalTale ==
  ASSUME NEW s, HasTale(s), NEW phase
  PROVE  SameTale(s, Finalized(s, phase))
<1> DEFINE t == IF phase = "completed" THEN s ELSE ActiveSettled(s)
           u == IF phase = "completed" THEN t ELSE MarkFailed(t, t.run)
<1>1. Finalized(s, phase) = RunClosed(u)
  BY Zenon DEF Finalized
<1>2. SameTale(s, t)
  BY RunTales DEF HasTale
<1> HIDE DEF t
<1>3. SameTale(s, u)
  <2>1. SameTale(t, MarkFailed(t, t.run))
    BY <1>2, RunTales DEF SameTale, HasTale
  <2>2. SameTale(s, MarkFailed(t, t.run))
    BY <1>2, <2>1, TaleGoesOn
  <2> QED BY <1>2, <2>2
<1> HIDE DEF u
<1>4. SameTale(u, RunClosed(u))
  BY <1>3, RunTales DEF SameTale, HasTale
<1> QED BY <1>1, <1>3, <1>4, TaleGoesOn

\* The screen, the payload and the exit code have seen the same end, and the
\* screen and the payload the same workers.
TaleInv ==
  /\ HasTale(view) /\ view.errorRendered = (end = "failed")
  /\ TurnFailed(recorded) = (end = "failed")
  /\ view.workers = Digest(recorded)

LEMMA TaleStarts == TranscriptInit => TaleInv
<1> SUFFICES ASSUME TranscriptInit PROVE TaleInv
  OBVIOUS
<1>1. recorded = <<>> /\ end = "none" /\ view = Blank
  BY DEF TranscriptInit
<1>2. HasTale(Blank) /\ Blank.errorRendered = FALSE /\ Blank.workers = NoReports
  BY DEF Blank, HasTale, SameTale, NoReports
<1>3. DOMAIN <<>> = {}
  OBVIOUS
<1>4. Fails!Fold(FALSE, <<>>) = FALSE
  BY Zenon, <1>3, Fails!FoldEmpty
<1>5. TurnFailed(<<>>) = FALSE
  BY Zenon, <1>4, FailFolds
<1>6. Digest(<<>>) = NoReports
  <2>1. Digests!Fold(NoReports, <<>>) = NoReports
    BY <1>3, Digests!FoldEmpty
  <2> QED BY <2>1, DigestFolds
<1> QED BY <1>1, <1>2, <1>5, <1>6 DEF TaleInv

\* An event that is emitted.
LEMMA TaleEvent ==
  ASSUME TurnInv, TaleInv, NEW e \in TurnEvents, e.seq = NoSequence, EmitEvent(e),
         end = "none", (end' = "failed") = (e.type = "error")
  PROVE  TaleInv'
<1>1. recorded' = Append(recorded, e) /\ view' = Draw(view, e) /\ recorded \in Seq(TurnEvents)
  BY DEF EmitEvent, TurnInv
<1>2. HasTale(view) /\ view.errorRendered = FALSE /\ TurnFailed(recorded) = FALSE /\ view.workers = Digest(recorded)
  BY DEF TaleInv
<1>3. HasTale(view') /\ view'.workers = Digest(recorded')
  BY <1>1, <1>2, DrawTale, EventCounts
<1>4. view'.errorRendered = (end' = "failed")
  <2>1. view'.errorRendered = IF e.type = "error" THEN TRUE ELSE FALSE
    BY <1>1, <1>2, DrawTale
  <2> QED BY <2>1
<1>5. TurnFailed(recorded') = (end' = "failed")
  <2>1. TurnFailed(recorded') = FailStep(TurnFailed(recorded), e)
    BY Zenon, <1>1, EventCounts
  <2>2. FailStep(FALSE, e) = (e.type = "error")
    BY DEF FailStep
  <2> QED BY Zenon, <1>2, <2>1, <2>2
<1> QED BY Zenon, <1>3, <1>4, <1>5 DEF TaleInv

LEMMA TaleKept ==
  ASSUME ~Numbered, TurnInv, TaleInv, [TranscriptNext]_transcriptVars PROVE TaleInv'
<1> USE TranscriptAssumption
<1>1. attempt \in Nat /\ sequence \in Nat /\ sequence + 1 \in Nat
  BY DEF TurnInv
<1>2. \A type, key, val, number :
        /\ FrameEvent(type, key, val, number).seq = NoSequence
        /\ FrameEvent(type, key, val, number).type = type
  BY DEF FrameEvent
<1>3. ASSUME NEW type \in {"text", "reasoning", "request", "result", "worker", "final"},
             NEW key \in Keys \cup {"none"}, NEW val \in Nat \cup Outcomes \cup Reports \cup {"none"},
             NEW number \in Nat, type = "text" => key = "none" /\ val \in Nat,
             EmitEvent(FrameEvent(type, key, val, number)), end = "none", end' # "failed"
      PROVE  TaleInv'
  <2> DEFINE e == FrameEvent(type, key, val, number)
  <2>1. e \in TurnEvents
    <3>1. CASE type = "text"
      BY <1>3, <3>1, TextTyped
    <3>2. CASE type # "text"
      <4>1. type \in {"reasoning", "request", "result", "worker", "final", "error"}
        BY <1>3, <3>2
      <4> QED BY <4>1, OtherTyped
    <3> QED BY <3>1, <3>2
  <2>2. e.seq = NoSequence /\ e.type # "error"
    BY <1>2
  <2>3. EmitEvent(e)
    BY <1>3
  <2> HIDE DEF e
  <2>4. (end' = "failed") = (e.type = "error")
    BY <1>3, <2>2
  <2> QED BY <1>3, <2>1, <2>2, <2>3, <2>4, TaleEvent
<1>4. ASSUME NEW type \in {"text", "reasoning", "request", "result", "worker"},
             NEW key \in Keys \cup {"none"}, NEW val \in Nat \cup Outcomes \cup Reports \cup {"none"},
             type = "text" => key = "none" /\ val \in Nat,
             NEW newFrame, Receive(type, key, val, newFrame)
      PROVE  TaleInv'
  <2>1. PICK number \in Nat : EmitEvent(FrameEvent(type, key, val, number))
    BY <1>1, <1>4 DEF Receive
  <2>2. end = "none" /\ end' # "failed"
    BY <1>4 DEF Receive, FrameMayCome
  <2>3. type \in {"text", "reasoning", "request", "result", "worker", "final"}
    BY <1>4
  <2> QED BY <1>3, <1>4, <2>1, <2>2, <2>3
<1>5. "none" \in Keys \cup {"none"} /\ "none" \in Nat \cup Outcomes \cup Reports \cup {"none"}
  OBVIOUS
<1>6. ASSUME NEW chunk \in {Chunk, Echo}, SpeakText(chunk) PROVE TaleInv'
  <2>1. Receive("text", "none", chunk, TRUE)
    BY <1>6 DEF SpeakText
  <2>2. chunk \in Nat
    BY DEF Chunk, Echo, TurnInv
  <2>3. chunk \in Nat \cup Outcomes \cup Reports \cup {"none"}
    BY <2>2
  <2> QED BY <1>4, <1>5, <2>1, <2>2, <2>3
<1>7. ASSUME NEW newFrame \in Frames, Reason(newFrame) PROVE TaleInv'
  <2>1. Receive("reasoning", "none", Chunk, newFrame)
    BY <1>7 DEF Reason
  <2>2. Chunk \in Nat \cup Outcomes \cup Reports \cup {"none"}
    BY DEF Chunk, TurnInv
  <2> QED BY <1>4, <1>5, <2>1, <2>2
<1>8. ASSUME NEW call \in CallIds, NEW newFrame \in Frames, RequestTool(call, newFrame) PROVE TaleInv'
  <2>1. Receive("request", call, "none", newFrame)
    BY <1>8 DEF RequestTool
  <2>2. call \in Keys \cup {"none"}
    BY DEF Keys
  <2> QED BY <1>4, <1>5, <2>1, <2>2
<1>9. ASSUME NEW call \in CallIds, NEW outcome \in Outcomes, AnswerTool(call, outcome) PROVE TaleInv'
  <2>1. Receive("result", call, outcome, FALSE)
    BY <1>9 DEF AnswerTool
  <2>2. call \in Keys \cup {"none"} /\ outcome \in Nat \cup Outcomes \cup Reports \cup {"none"}
    BY DEF Keys
  <2> QED BY <1>4, <2>1, <2>2
<1>10. ASSUME NEW w \in Workers, NEW report \in Reports, NEW newFrame \in Frames, ReportWorker(w, report, newFrame)
       PROVE  TaleInv'
  <2>1. Receive("worker", w, report, newFrame)
    BY <1>10 DEF ReportWorker
  <2>2. w \in Keys \cup {"none"} /\ report \in Nat \cup Outcomes \cup Reports \cup {"none"}
    BY DEF Keys
  <2> QED BY <1>4, <2>1, <2>2
<1>11. ASSUME NEW continued \in BOOLEAN, FinalFrame(continued) PROVE TaleInv'
  <2>1. EmitEvent(FrameEvent("final", "none", "none", sequence + 1)) /\ end = "none"
    BY <1>11 DEF FinalFrame, FrameMayCome
  <2>2. end' # "failed"
    BY <1>11, <2>1 DEF FinalFrame
  <2> QED BY <1>1, <1>3, <1>5, <2>1, <2>2
<1>12. ASSUME NEW onFinal \in BOOLEAN, GiveUp(onFinal) PROVE TaleInv'
  <2> DEFINE e == FrameEvent("error", "none", "none", NoSequence)
  <2>1. e \in TurnEvents
    BY OtherTyped DEF NoSequence
  <2>2. e.seq = NoSequence /\ e.type = "error"
    BY <1>2
  <2>3. EmitEvent(e) /\ end = "none" /\ end' = "failed"
    BY <1>12 DEF GiveUp, FrameMayCome
  <2> HIDE DEF e
  <2>4. (end' = "failed") = (e.type = "error")
    BY <2>2, <2>3
  <2> QED BY <2>1, <2>2, <2>3, <2>4, TaleEvent
<1>13. ASSUME recorded' = recorded, view' = view, (end' = "failed") = (end = "failed") PROVE TaleInv'
  BY <1>13, Zenon DEF TaleInv
<1>14. ASSUME NEW onFinal \in BOOLEAN, ResumeAttempt(onFinal) PROVE TaleInv'
  BY <1>13, <1>14 DEF ResumeAttempt
<1>15. CASE AskCancel
  BY <1>13, <1>15 DEF AskCancel
<1>16. CASE StopCancelled
  BY <1>13, <1>16 DEF StopCancelled
<1>17. CASE CloseTurn
  <2>1. recorded' = recorded /\ end' = end /\ view' = Finalized(view, PhaseOf)
    BY <1>17 DEF CloseTurn
  <2>2. HasTale(view) /\ view.errorRendered = (end = "failed") /\ view.workers = Digest(recorded)
        /\ TurnFailed(recorded) = (end = "failed")
    BY Zenon DEF TaleInv
  <2>3. SameTale(view, view')
    BY <2>1, <2>2, FinalTale
  <2>4. HasTale(view') /\ view'.errorRendered = view.errorRendered /\ view'.workers = view.workers
    BY <2>3 DEF SameTale, HasTale
  <2> QED BY <2>1, <2>2, <2>4, Zenon DEF TaleInv
<1>18. CASE UNCHANGED transcriptVars
  BY <1>13, <1>18 DEF transcriptVars
<1> QED BY <1>6, <1>7, <1>8, <1>9, <1>10, <1>11, <1>12, <1>14, <1>15, <1>16, <1>17, <1>18 DEF TranscriptNext

\* The command's exit code, the host's payload and the terminal agree on how a
\* turn ended, on its workers and on the answer, for any calls, workers, reports
\* and number of attempts (_turn_failed, _headless, _digest, result,
\* _finalize_turn).  Of frames without a number: with numbers the terminal may
\* refuse an event the others count.
THEOREM FrontEndsTellOneStory == ASSUME ~Numbered PROVE TranscriptSpec => []FrontEndsAgree
<1>1. TurnInv /\ TaleInv => FrontEndsAgree
  <2> SUFFICES ASSUME TurnInv, TaleInv, end \in {"completed", "failed"}, ~stopAsked PROVE FrontEndsAgree
    BY DEF FrontEndsAgree
  <2>1. /\ view.errorRendered = (end = "failed") /\ TurnFailed(recorded) = (end = "failed")
        /\ view.workers = Digest(recorded)
    BY Zenon DEF TaleInv
  <2>2. (ExitCode(recorded) = 0) = (end = "completed")
    <3>1. CASE end = "failed"
      <4>1. TurnFailed(recorded) = TRUE
        BY <2>1, <3>1, Zenon
      <4>2. ExitCode(recorded) = 1
        BY <4>1, Zenon DEF ExitCode
      <4> QED BY <3>1, <4>2
    <3>2. CASE end = "completed"
      <4>1. TurnFailed(recorded) = FALSE
        BY <2>1, <3>2
      <4>2. ExitCode(recorded) = 0
        BY <4>1, Zenon DEF ExitCode
      <4> QED BY <3>2, <4>2
    <3> QED BY <3>1, <3>2
  <2>3. Payload.ok = (end = "completed")
    BY <2>1 DEF Payload
  <2>4. PhaseOf = end
    BY <2>1 DEF PhaseOf
  <2>5. Payload.workers = view.workers
    BY <2>1 DEF Payload
  <2>6. ASSUME Last(node.additions).kind = "ai" PROVE Own(Payload.text) = Own(SinceLastRequest)
    <3>1. node.additions # <<>> /\ Own(Last(node.additions).text) = Own(SinceOf(recorded))
      BY <2>6 DEF TurnInv
    <3>2. Payload.text = Last(node.additions).text
      BY <2>6, <3>1 DEF Payload, AnswerOf
    <3> QED BY <3>1, <3>2, SinceFolds
  <2> QED BY <2>2, <2>3, <2>4, <2>5, <2>6 DEF FrontEndsAgree
<1>2. TurnInv /\ TaleInv /\ [TranscriptNext]_transcriptVars => TurnInv' /\ TaleInv'
  BY TurnKept, TaleKept
<1> QED BY <1>1, <1>2, TurnStarts, TaleStarts, PTL DEF TranscriptSpec

----------------------------------------------------------------------------
(* Screens *)

Statuses ==
  Nat \cup Outcomes \cup Reports
    \cup {"none", "running", "success", "error", "rejected", "failed", "cancelled"}

DrawnCards == [key : Keys, status : Statuses, run : Nat]

Screens ==
  [gate : [turn : Nat \cup {NoTurn}, attempt : {NoAttempt}, last : {NoSequence}],
   cards : Seq(DrawnCards), card : [Keys -> Nat], runs : Seq(BOOLEAN), run : Nat,
   texts : Seq(Text), assistant : Nat, thoughts : Seq(Text), thought : Nat,
   workers : [Workers -> Statuses], errors : Nat, errorRendered : BOOLEAN]

\* The open work run and the open streams are the newest ones.
Pointing(s) == s.run \in 0..Len(s.runs) /\ s.assistant \in {0, Len(s.texts)} /\ s.thought \in {0, Len(s.thoughts)}

\* A card stands in a run; a key is registered with a card of its own; the card of
\* a worker shows what the worker last reported.
Rooted(s) == \A i \in 1..Len(s.cards) : s.cards[i].run \in 1..Len(s.runs)
Registered(s) ==
  \A k \in Keys : s.card[k] # 0 => s.card[k] \in 1..Len(s.cards) /\ s.cards[s.card[k]].key = k
ShownAs(report) == IF report = "failed" THEN "error" ELSE report
WorkersShown(s) ==
  \A w \in Workers :
     IF s.card[w] = 0 THEN s.workers[w] = "none" ELSE s.cards[s.card[w]].status = ShownAs(s.workers[w])

FitsScreen(s) ==
  /\ s \in Screens /\ Pointing(s) /\ Rooted(s) /\ Registered(s) /\ WorkersShown(s)
  /\ s.errorRendered <=> s.errors # 0

\* Before any error, a call that failed stands in a run that is marked.
MarkedCards(s) ==
  \A i \in 1..Len(s.cards) :
     s.cards[i].key \in CallIds /\ s.cards[i].status \in {"error", "rejected"} => s.runs[s.cards[i].run]
Marked(s) == s.errors = 0 => MarkedCards(s)

\* A step that leaves cards, workers and errors alone.
RunsGrow(s, t) ==
  Len(s.runs) <= Len(t.runs) /\ \A i \in 1..Len(s.runs) : s.runs[i] => t.runs[i]
Quiet(s, t) ==
  /\ t \in Screens /\ Pointing(t)
  /\ t.cards = s.cards /\ t.card = s.card /\ t.workers = s.workers
  /\ t.errors = s.errors /\ t.errorRendered = s.errorRendered /\ RunsGrow(s, t)

LEMMA QuietFits ==
  ASSUME NEW s, FitsScreen(s), NEW t, Quiet(s, t)
  PROVE  FitsScreen(t) /\ (Marked(s) => Marked(t))
<1>1. s \in Screens /\ t \in Screens
  BY DEF FitsScreen, Quiet
<1>2. Rooted(t)
  <2> SUFFICES ASSUME NEW i \in 1..Len(t.cards) PROVE t.cards[i].run \in 1..Len(t.runs)
    BY DEF Rooted
  <2>1. t.cards[i].run \in 1..Len(s.runs) /\ Len(s.runs) <= Len(t.runs)
    BY DEF FitsScreen, Rooted, Quiet, RunsGrow
  <2>2. Len(s.runs) \in Nat /\ Len(t.runs) \in Nat
    BY <1>1 DEF Screens
  <2> QED BY <2>1, <2>2
<1>3. Registered(t) /\ WorkersShown(t)
  BY DEF FitsScreen, Quiet, Registered, WorkersShown
<1>4. FitsScreen(t)
  BY <1>2, <1>3 DEF FitsScreen, Quiet
<1>5. ASSUME Marked(s), t.errors = 0 PROVE MarkedCards(t)
  <2>1. MarkedCards(s)
    BY <1>5 DEF Marked, Quiet
  <2> SUFFICES ASSUME NEW i \in 1..Len(t.cards), t.cards[i].key \in CallIds, t.cards[i].status \in {"error", "rejected"}
               PROVE t.runs[t.cards[i].run]
    BY DEF MarkedCards
  <2>2. s.cards[i] = t.cards[i] /\ i \in 1..Len(s.cards)
    BY DEF Quiet
  <2>3. s.runs[s.cards[i].run] /\ s.cards[i].run \in 1..Len(s.runs)
    BY <2>1, <2>2 DEF MarkedCards, FitsScreen, Rooted
  <2> QED BY <2>2, <2>3 DEF Quiet, RunsGrow
<1> QED BY <1>4, <1>5 DEF Marked

LEMMA QuietGoesOn ==
  ASSUME NEW s \in Screens, NEW t, NEW u, Quiet(s, t), Quiet(t, u) PROVE Quiet(s, u)
<1>1. RunsGrow(s, u)
  <2>1. Len(s.runs) \in Nat
    BY DEF Screens
  <2>2. Len(t.runs) \in Nat
    BY DEF Quiet, Screens
  <2>3. Len(u.runs) \in Nat
    BY DEF Quiet, Screens
  <2>4. RunsGrow(s, t) /\ RunsGrow(t, u)
    BY DEF Quiet
  <2>5. Len(s.runs) <= Len(u.runs)
    BY <2>1, <2>2, <2>3, <2>4 DEF RunsGrow
  <2>6. ASSUME NEW i \in 1..Len(s.runs), s.runs[i] PROVE u.runs[i]
    <3>1. t.runs[i] /\ i \in 1..Len(t.runs)
      BY <2>1, <2>2, <2>4, <2>6 DEF RunsGrow
    <3> QED BY <2>4, <3>1 DEF RunsGrow
  <2> QED BY <2>5, <2>6 DEF RunsGrow
<1> QED BY <1>1 DEF Quiet

\* What was said and thought stays as it is; nothing more is said in a text before it.
SameWords(s, t) ==
  t.texts = s.texts /\ t.thoughts = s.thoughts /\ t.assistant \in {0, s.assistant}

LEMMA InRunQuiet ==
  ASSUME NEW s, FitsScreen(s)
  PROVE  /\ Quiet(s, InRun(s)) /\ SameWords(s, InRun(s)) /\ InRun(s).thought = s.thought
         /\ InRun(s).run \in 1..Len(InRun(s).runs)
<1> DEFINE t == InRun(s)
<1>1. s \in Screens /\ Pointing(s)
  BY DEF FitsScreen
<1>2. CASE s.run # 0
  <2>1. t = s
    BY <1>2 DEF InRun
  <2>2. RunsGrow(s, s)
    <3>1. Len(s.runs) \in Nat
      BY <1>1 DEF Screens
    <3> QED BY <3>1 DEF RunsGrow
  <2>3. s.run \in 1..Len(s.runs)
    BY <1>1, <1>2 DEF Pointing
  <2> HIDE DEF t
  <2> QED BY <1>1, <2>1, <2>2, <2>3 DEF Quiet, SameWords, t
<1>3. CASE s.run = 0
  <2> DEFINE more == Append(s.runs, FALSE)
  <2>1. t = [s EXCEPT !.runs = more, !.run = Len(s.runs) + 1]
    BY <1>3 DEF InRun
  <2>2. /\ more \in Seq(BOOLEAN) /\ Len(more) = Len(s.runs) + 1 /\ Len(s.runs) \in Nat
        /\ \A i \in 1..Len(s.runs) : more[i] = s.runs[i]
    BY <1>1 DEF Screens
  <2> HIDE DEF more, t
  <2>3. t \in Screens
    <3>1. Len(s.runs) + 1 \in Nat
      BY <2>2
    <3> QED BY <1>1, <2>1, <2>2, <3>1 DEF Screens
  <2>4. t.runs = more /\ t.run = Len(s.runs) + 1
    BY <1>1, <2>1 DEF Screens
  <2>5. /\ t.cards = s.cards /\ t.card = s.card /\ t.workers = s.workers /\ t.errors = s.errors
        /\ t.errorRendered = s.errorRendered /\ t.texts = s.texts /\ t.thoughts = s.thoughts
        /\ t.assistant = s.assistant /\ t.thought = s.thought
    BY <1>1, <2>1 DEF Screens
  <2>6. RunsGrow(s, t)
    BY <2>2, <2>4 DEF RunsGrow
  <2>7. Pointing(t) /\ t.run \in 1..Len(t.runs)
    BY <1>1, <2>2, <2>4, <2>5 DEF Pointing
  <2> QED BY <2>3, <2>5, <2>6, <2>7 DEF Quiet, SameWords, t
<1> QED BY <1>2, <1>3

LEMMA RunClosedQuiet ==
  ASSUME NEW s, FitsScreen(s) PROVE Quiet(s, RunClosed(s)) /\ SameWords(s, RunClosed(s)) /\ RunClosed(s).thought = s.thought
<1> DEFINE t == RunClosed(s)
<1>1. s \in Screens /\ Pointing(s)
  BY DEF FitsScreen
<1>2. t = [s EXCEPT !.run = 0]
  BY DEF RunClosed
<1> HIDE DEF t
<1>3. t \in Screens /\ t.run = 0
  BY <1>1, <1>2 DEF Screens
<1>4. /\ t.cards = s.cards /\ t.card = s.card /\ t.workers = s.workers /\ t.errors = s.errors
      /\ t.errorRendered = s.errorRendered /\ t.texts = s.texts /\ t.thoughts = s.thoughts
      /\ t.assistant = s.assistant /\ t.thought = s.thought /\ t.runs = s.runs
  BY <1>1, <1>2 DEF Screens
<1>5. Len(s.runs) \in Nat
  BY <1>1 DEF Screens
<1>6. RunsGrow(s, t)
  BY <1>4, <1>5 DEF RunsGrow
<1>7. Pointing(t)
  BY <1>1, <1>3, <1>4, <1>5 DEF Pointing
<1> QED BY <1>3, <1>4, <1>6, <1>7 DEF Quiet, SameWords, t

LEMMA MarkFailedQuiet ==
  ASSUME NEW s, FitsScreen(s), NEW r
  PROVE  /\ Quiet(s, MarkFailed(s, r)) /\ SameWords(s, MarkFailed(s, r)) /\ MarkFailed(s, r).thought = s.thought
         /\ r \in 1..Len(s.runs) => MarkFailed(s, r).runs[r]
<1> DEFINE t == MarkFailed(s, r)
           marked == [i \in 1..Len(s.runs) |-> s.runs[i] \/ i = r]
<1>1. s \in Screens /\ Pointing(s)
  BY DEF FitsScreen
<1>2. s.runs \in Seq(BOOLEAN) /\ Len(s.runs) \in Nat /\ DOMAIN s.runs = 1..Len(s.runs)
  BY <1>1 DEF Screens
<1>3. t = [s EXCEPT !.runs = marked]
  BY <1>1, <1>2 DEF MarkFailed, Screens
<1>4. marked \in Seq(BOOLEAN) /\ Len(marked) = Len(s.runs)
  BY <1>2
<1>a. \A i \in 1..Len(s.runs) : marked[i] = (s.runs[i] \/ i = r)
  OBVIOUS
<1> HIDE DEF t, marked
<1>5. t \in Screens /\ t.runs = marked
  BY <1>1, <1>3, <1>4 DEF Screens
<1>6. /\ t.cards = s.cards /\ t.card = s.card /\ t.workers = s.workers /\ t.errors = s.errors
      /\ t.errorRendered = s.errorRendered /\ t.texts = s.texts /\ t.thoughts = s.thoughts
      /\ t.assistant = s.assistant /\ t.thought = s.thought /\ t.run = s.run
  BY <1>1, <1>3 DEF Screens
<1>7. RunsGrow(s, t)
  BY <1>2, <1>4, <1>5, <1>a DEF RunsGrow
<1>8. Pointing(t)
  BY <1>1, <1>4, <1>5, <1>6 DEF Pointing
<1>9. r \in 1..Len(s.runs) => t.runs[r]
  BY <1>5, <1>a
<1> QED BY <1>5, <1>6, <1>7, <1>8, <1>9 DEF Quiet, SameWords, t

LEMMA StreamsClosedQuiet ==
  ASSUME NEW s, FitsScreen(s) PROVE Quiet(s, StreamsClosed(s)) /\ SameWords(s, StreamsClosed(s))
<1> DEFINE t == StreamsClosed(s)
<1>1. s \in Screens /\ Pointing(s)
  BY DEF FitsScreen
<1>2. t = [s EXCEPT !.assistant = 0, !.thought = 0]
  BY DEF StreamsClosed
<1> HIDE DEF t
<1>3. t \in Screens /\ t.assistant = 0 /\ t.thought = 0
  BY <1>1, <1>2 DEF Screens
<1>4. /\ t.cards = s.cards /\ t.card = s.card /\ t.workers = s.workers /\ t.errors = s.errors
      /\ t.errorRendered = s.errorRendered /\ t.texts = s.texts /\ t.thoughts = s.thoughts
      /\ t.run = s.run /\ t.runs = s.runs
  BY <1>1, <1>2 DEF Screens
<1>5. Len(s.runs) \in Nat
  BY <1>1 DEF Screens
<1>6. RunsGrow(s, t)
  BY <1>4, <1>5 DEF RunsGrow
<1>7. Pointing(t)
  BY <1>1, <1>3, <1>4, <1>5 DEF Pointing
<1> QED BY <1>3, <1>4, <1>6, <1>7 DEF Quiet, SameWords, t

\* The newest text grows by a chunk.
LEMMA FlatGrows ==
  ASSUME NEW texts \in Seq(Text), texts # <<>>, NEW chunk \in Nat
  PROVE  LET longer == [texts EXCEPT ![Len(texts)] = Append(@, chunk)] IN
         longer \in Seq(Text) /\ Len(longer) = Len(texts) /\ Flat(longer) = Append(Flat(texts), chunk)
<1> DEFINE n == Len(texts)
           before == SubSeq(texts, 1, n - 1)
           last == texts[n]
           longer == [texts EXCEPT ![n] = Append(@, chunk)]
<1>1. n \in Nat /\ n # 0 /\ last \in Text
  OBVIOUS
<1>2. Append(last, chunk) \in Text
  BY <1>1 DEF Text
<1>3. before \in Seq(Text) /\ texts = Append(before, last)
  BY <1>1
<1> DEFINE newest == Append(last, chunk)
<1>a. longer = [texts EXCEPT ![n] = newest] /\ newest \in Text
  BY <1>1, <1>2
<1> HIDE DEF newest
<1>4. longer \in Seq(Text) /\ Len(longer) = n /\ longer = Append(before, newest)
  <2>0. before \in Seq(Text) /\ Len(before) = n - 1 /\ \A j \in 1..(n - 1) : before[j] = texts[j]
    BY <1>1, <1>3
  <2> HIDE DEF before, last, longer
  <2>1. longer \in Seq(Text) /\ Len(longer) = n
    BY <1>1, <1>a
  <2> DEFINE other == Append(before, newest)
  <2>2. other \in Seq(Text) /\ Len(other) = n
    BY <1>1, <2>0, <1>a
  <2>3. ASSUME NEW j \in 1..n PROVE longer[j] = other[j]
    <3>1. CASE j = n
      <4>1. longer[j] = newest
        BY <1>1, <1>a, <3>1
      <4>2. other[j] = newest
        BY <1>1, <2>0, <3>1
      <4> QED BY <4>1, <4>2
    <3>2. CASE j # n
      <4>1. longer[j] = texts[j]
        BY <1>1, <1>a, <3>2
      <4>2. other[j] = before[j] /\ before[j] = texts[j]
        BY <1>1, <2>0, <3>2
      <4> QED BY <4>1, <4>2
    <3> QED BY <3>1, <3>2
  <2> HIDE DEF other, longer, before, last
  <2> QED BY <1>1, <2>1, <2>2, <2>3, SeqEqual DEF other
<1>b. newest = Append(last, chunk)
  BY DEF newest
<1> HIDE DEF before, last, longer
<1>5. Flat(texts) = Flat(before) \o last /\ Flat(longer) = Flat(before) \o newest
  BY <1>1, <1>a, <1>3, <1>4, FlatAppend
<1>6. Flat(before) \in Text
  BY <1>3, FlatTyped
<1>7. Flat(before) \o newest = Append(Flat(before) \o last, chunk)
  BY <1>1, <1>6, <1>b DEF Text
<1> QED BY <1>4, <1>5, <1>7 DEF longer, n

LEMMA FlatNew ==
  ASSUME NEW texts \in Seq(Text)
  PROVE  Append(texts, <<>>) \in Seq(Text) /\ Len(Append(texts, <<>>)) = Len(texts) + 1 /\ Flat(Append(texts, <<>>)) = Flat(texts)
<1> DEFINE none == <<>>
<1>1. none \in Text
  BY DEF Text
<1>2. Flat(texts) \in Seq(Nat) /\ Flat(texts) \o <<>> = Flat(texts)
  BY FlatTyped DEF Text
<1>3. Append(texts, none) \in Seq(Text) /\ Len(Append(texts, none)) = Len(texts) + 1
  BY <1>1
<1> HIDE DEF none
<1>4. Flat(Append(texts, none)) = Flat(texts) \o none
  BY <1>1, FlatAppend
<1> QED BY <1>2, <1>3, <1>4 DEF none

LEMMA SpeakQuiet ==
  ASSUME NEW s, FitsScreen(s), NEW chunk \in Nat
  PROVE  /\ Quiet(s, Speak(s, chunk)) /\ Speak(s, chunk).thoughts = s.thoughts
         /\ Flat(Speak(s, chunk).texts) = Append(Flat(s.texts), chunk)
<1> DEFINE t == IF s.assistant # 0 THEN s
                ELSE [s EXCEPT !.texts = Append(@, <<>>), !.assistant = Len(s.texts) + 1]
           longer == [t.texts EXCEPT ![Len(t.texts)] = Append(@, chunk)]
           u == Speak(s, chunk)
<1>1. s \in Screens /\ Pointing(s) /\ s.texts \in Seq(Text) /\ Len(s.texts) \in Nat
  BY DEF FitsScreen, Screens
<1>2. /\ t \in Screens /\ t.texts # <<>> /\ t.assistant = Len(t.texts) /\ Flat(t.texts) = Flat(s.texts)
      /\ t.run = s.run /\ t.runs = s.runs /\ t.thoughts = s.thoughts
      /\ t.cards = s.cards /\ t.card = s.card /\ t.workers = s.workers
      /\ t.errors = s.errors /\ t.errorRendered = s.errorRendered
  <2>1. CASE s.assistant # 0
    <3>1. t = s
      BY <2>1
    <3>2. s.texts # <<>>
      BY <1>1, <2>1 DEF Pointing
    <3> HIDE DEF t
    <3> QED BY <1>1, <2>1, <3>1, <3>2 DEF Pointing
  <2>2. CASE s.assistant = 0
    <3> DEFINE more == Append(s.texts, <<>>)
    <3>1. more \in Seq(Text) /\ Len(more) = Len(s.texts) + 1 /\ Flat(more) = Flat(s.texts)
      BY <1>1, FlatNew
    <3>2. t = [s EXCEPT !.texts = more, !.assistant = Len(s.texts) + 1]
      BY <2>2
    <3> HIDE DEF more, t
    <3>3. t \in Screens /\ t.texts = more /\ t.assistant = Len(s.texts) + 1
      <4>1. Len(s.texts) + 1 \in Nat
        BY <1>1
      <4>2. t \in Screens
        BY <1>1, <3>1, <3>2, <4>1 DEF Screens
      <4>3. t.texts = more
        BY <1>1, <3>2 DEF Screens
      <4>4. t.assistant = Len(s.texts) + 1
        BY <1>1, <3>2 DEF Screens
      <4> QED BY <4>2, <4>3, <4>4
    <3>4. more # <<>>
      BY <1>1, <3>1
    <3>5. /\ t.run = s.run /\ t.runs = s.runs /\ t.thoughts = s.thoughts
          /\ t.cards = s.cards /\ t.card = s.card /\ t.workers = s.workers
          /\ t.errors = s.errors /\ t.errorRendered = s.errorRendered
      BY <1>1, <3>2 DEF Screens
    <3> QED BY <3>1, <3>3, <3>4, <3>5
  <2> QED BY <2>1, <2>2
<1>3. u = [t EXCEPT !.texts[t.assistant] = Append(@, chunk), !.thought = 0]
  BY Zenon DEF Speak
<1> HIDE DEF t, u
<1>4. t.texts \in Seq(Text)
  BY <1>2 DEF Screens
<1>5. longer \in Seq(Text) /\ Len(longer) = Len(t.texts) /\ Flat(longer) = Append(Flat(s.texts), chunk)
  BY <1>2, <1>4, FlatGrows
<1>6. u = [t EXCEPT !.texts = longer, !.thought = 0]
  BY <1>2, <1>3 DEF Screens
<1> HIDE DEF longer
<1>7. u \in Screens /\ u.texts = longer /\ u.thought = 0 /\ u.assistant = Len(u.texts)
  BY <1>2, <1>5, <1>6 DEF Screens
<1>8. /\ u.run = s.run /\ u.runs = s.runs /\ u.thoughts = s.thoughts
      /\ u.cards = s.cards /\ u.card = s.card /\ u.workers = s.workers
      /\ u.errors = s.errors /\ u.errorRendered = s.errorRendered
  BY <1>2, <1>6 DEF Screens
<1>9. RunsGrow(s, u)
  <2>1. Len(s.runs) \in Nat
    BY <1>1 DEF Screens
  <2> QED BY <1>8, <2>1 DEF RunsGrow
<1>10. Pointing(u)
  BY <1>1, <1>7, <1>8 DEF Pointing
<1> QED BY <1>5, <1>7, <1>8, <1>9, <1>10 DEF Quiet, u

LEMMA ThinkQuiet ==
  ASSUME NEW s, FitsScreen(s), NEW chunk \in Nat
  PROVE  /\ Quiet(s, Think(s, chunk)) /\ Think(s, chunk).texts = s.texts
         /\ Flat(Think(s, chunk).thoughts) = Append(Flat(s.thoughts), chunk)
<1> DEFINE r == InRun(s)
           t == IF s.thought # 0 THEN s
                ELSE [r EXCEPT !.thoughts = Append(@, <<>>), !.thought = Len(s.thoughts) + 1]
           longer == [t.thoughts EXCEPT ![Len(t.thoughts)] = Append(@, chunk)]
           u == Think(s, chunk)
<1>1. s \in Screens /\ Pointing(s) /\ s.thoughts \in Seq(Text) /\ Len(s.thoughts) \in Nat
  BY DEF FitsScreen, Screens
<1>2. Quiet(s, r) /\ SameWords(s, r)
  BY InRunQuiet
<1>a. u = [t EXCEPT !.thoughts[t.thought] = Append(@, chunk)]
  BY Zenon DEF Think
<1> HIDE DEF r
<1>3. Quiet(s, t) /\ t.thoughts # <<>> /\ t.thought = Len(t.thoughts) /\ Flat(t.thoughts) = Flat(s.thoughts) /\ t.texts = s.texts
  <2>1. CASE s.thought # 0
    <3>1. t = s
      BY <2>1
    <3>2. s.thoughts # <<>> /\ s.thought = Len(s.thoughts)
      BY <1>1, <2>1 DEF Pointing
    <3>3. RunsGrow(s, s)
      <4>1. Len(s.runs) \in Nat
        BY <1>1 DEF Screens
      <4> QED BY <4>1 DEF RunsGrow
    <3> HIDE DEF t
    <3> QED BY <1>1, <3>1, <3>2, <3>3 DEF Quiet
  <2>2. CASE s.thought = 0
    <3> DEFINE more == Append(s.thoughts, <<>>)
    <3>1. more \in Seq(Text) /\ Len(more) = Len(s.thoughts) + 1 /\ Flat(more) = Flat(s.thoughts)
      BY <1>1, FlatNew
    <3>2. r \in Screens /\ r.thoughts = s.thoughts /\ r.texts = s.texts
      BY <1>2 DEF Quiet, SameWords
    <3>3. t = [r EXCEPT !.thoughts = more, !.thought = Len(s.thoughts) + 1]
      BY <2>2, <3>2 DEF Screens
    <3> HIDE DEF more, t
    <3>4. t \in Screens /\ t.thoughts = more /\ t.thought = Len(s.thoughts) + 1
      <4>1. Len(s.thoughts) + 1 \in Nat
        BY <1>1
      <4>2. t \in Screens
        BY <3>1, <3>2, <3>3, <4>1 DEF Screens
      <4>3. t.thoughts = more
        BY <3>2, <3>3 DEF Screens
      <4>4. t.thought = Len(s.thoughts) + 1
        BY <3>2, <3>3 DEF Screens
      <4> QED BY <4>2, <4>3, <4>4
    <3>5. more # <<>>
      BY <1>1, <3>1
    <3>6. /\ t.run = r.run /\ t.runs = r.runs /\ t.texts = r.texts /\ t.assistant = r.assistant
          /\ t.cards = r.cards /\ t.card = r.card /\ t.workers = r.workers
          /\ t.errors = r.errors /\ t.errorRendered = r.errorRendered
      BY <3>2, <3>3 DEF Screens
    <3>7. Pointing(t)
      BY <1>1, <1>2, <3>1, <3>4, <3>6 DEF Pointing, Quiet
    <3>8. RunsGrow(s, t)
      BY <1>2, <3>6 DEF Quiet, RunsGrow
    <3>9. Quiet(s, t)
      BY <1>2, <3>4, <3>6, <3>7, <3>8 DEF Quiet
    <3> QED BY <3>1, <3>2, <3>4, <3>5, <3>6, <3>9
  <2> QED BY <2>1, <2>2
<1> HIDE DEF t, u
<1>4. t \in Screens /\ t.thoughts \in Seq(Text)
  BY <1>3 DEF Quiet, Screens
<1>5. longer \in Seq(Text) /\ Len(longer) = Len(t.thoughts) /\ Flat(longer) = Append(Flat(s.thoughts), chunk)
  BY <1>3, <1>4, FlatGrows
<1>6. u = [t EXCEPT !.thoughts = longer]
  BY <1>3, <1>4, <1>a DEF Screens
<1> HIDE DEF longer
<1>7. u \in Screens /\ u.thoughts = longer /\ u.thought = Len(u.thoughts)
  BY <1>3, <1>4, <1>5, <1>6 DEF Screens
<1>8. /\ u.run = t.run /\ u.runs = t.runs /\ u.texts = t.texts /\ u.assistant = t.assistant
      /\ u.cards = t.cards /\ u.card = t.card /\ u.workers = t.workers
      /\ u.errors = t.errors /\ u.errorRendered = t.errorRendered
  BY <1>4, <1>6 DEF Screens
<1>9. RunsGrow(s, u)
  BY <1>3, <1>8 DEF Quiet, RunsGrow
<1>10. Pointing(u)
  BY <1>3, <1>7, <1>8 DEF Pointing, Quiet
<1>11. Quiet(s, u)
  BY <1>3, <1>7, <1>8, <1>9, <1>10 DEF Quiet
<1> QED BY <1>3, <1>5, <1>7, <1>8, <1>11 DEF u

----------------------------------------------------------------------------
(* Cards *)

\* A card for a key is added and registered.
CardAdded(s, t, key) ==
  /\ Len(t.cards) = Len(s.cards) + 1
  /\ \A i \in 1..Len(s.cards) : t.cards[i] = s.cards[i]
  /\ t.cards[Len(s.cards) + 1].key = key /\ t.cards[Len(s.cards) + 1].status = "running"
  /\ t.card = [s.card EXCEPT ![key] = Len(s.cards) + 1]

SameTold(s, t) == t.workers = s.workers /\ t.errors = s.errors /\ t.errorRendered = s.errorRendered

LEMMA AddCardAdds ==
  ASSUME NEW s, FitsScreen(s), NEW key \in Keys
  PROVE  LET t == AddCard(s, key) IN
         /\ t \in Screens /\ Pointing(t) /\ Rooted(t) /\ Registered(t)
         /\ CardAdded(s, t, key) /\ SameTold(s, t) /\ SameWords(s, t) /\ t.thought = s.thought
         /\ RunsGrow(s, t) /\ t.run \in 1..Len(t.runs) /\ (Marked(s) => Marked(t))
<1> DEFINE r == InRun(s)
           new == [key |-> key, status |-> "running", run |-> r.run]
           cards == Append(s.cards, new)
           card == [s.card EXCEPT ![key] = Len(s.cards) + 1]
           t == AddCard(s, key)
<1>1. /\ Quiet(s, r) /\ SameWords(s, r) /\ r.thought = s.thought /\ r.run \in 1..Len(r.runs)
  BY InRunQuiet
<1>2. FitsScreen(r)
  BY <1>1, QuietFits
<1>3. t = [r EXCEPT !.cards = Append(@, new), !.card[key] = Len(r.cards) + 1]
  BY Zenon DEF AddCard
<1> HIDE DEF r, t
<1>4. s \in Screens /\ r \in Screens /\ r.cards = s.cards /\ r.card = s.card
  BY <1>1 DEF FitsScreen, Quiet
<1>5. s.cards \in Seq(DrawnCards) /\ Len(s.cards) \in Nat /\ s.card \in [Keys -> Nat] /\ Len(r.runs) \in Nat
  BY <1>4 DEF Screens
<1>6. new \in DrawnCards
  <2>1. r.run \in Nat /\ "running" \in Statuses
    BY <1>4 DEF Screens, Statuses
  <2> QED BY <2>1 DEF DrawnCards
<1>7. /\ cards \in Seq(DrawnCards) /\ Len(cards) = Len(s.cards) + 1 /\ cards[Len(s.cards) + 1] = new
      /\ \A i \in 1..Len(s.cards) : cards[i] = s.cards[i]
  BY <1>5, <1>6
<1>8. card \in [Keys -> Nat] /\ card[key] = Len(s.cards) + 1 /\ \A k \in Keys \ {key} : card[k] = s.card[k]
  BY <1>5
<1>9. new.key = key /\ new.status = "running" /\ new.run = r.run
  OBVIOUS
<1>10. t = [r EXCEPT !.cards = cards, !.card = card]
  BY <1>3, <1>4 DEF Screens
<1>a. card = [s.card EXCEPT ![key] = Len(s.cards) + 1]
  OBVIOUS
<1> HIDE DEF new, cards, card
<1>11. t \in Screens /\ t.cards = cards /\ t.card = card
  BY <1>4, <1>7, <1>8, <1>10 DEF Screens
<1>12. /\ t.run = r.run /\ t.runs = r.runs /\ t.texts = r.texts /\ t.assistant = r.assistant
       /\ t.thoughts = r.thoughts /\ t.thought = r.thought /\ t.workers = r.workers
       /\ t.errors = r.errors /\ t.errorRendered = r.errorRendered
  BY <1>4, <1>10 DEF Screens
<1>13. Pointing(t) /\ t.run \in 1..Len(t.runs)
  BY <1>1, <1>12 DEF Pointing, Quiet
<1>14. CardAdded(s, t, key)
  BY <1>7, <1>9, <1>11, <1>a DEF CardAdded
<1>15. SameTold(s, t) /\ SameWords(s, t) /\ t.thought = s.thought
  BY <1>1, <1>12 DEF SameTold, SameWords, Quiet
<1>16. RunsGrow(s, t)
  BY <1>1, <1>12 DEF Quiet, RunsGrow
<1>17. Rooted(t)
  <2> SUFFICES ASSUME NEW i \in 1..Len(cards) PROVE cards[i].run \in 1..Len(r.runs)
    BY <1>11, <1>12 DEF Rooted
  <2>1. CASE i = Len(s.cards) + 1
    BY <1>1, <1>7, <1>9, <2>1
  <2>2. CASE i # Len(s.cards) + 1
    <3>1. i \in 1..Len(r.cards) /\ cards[i] = r.cards[i]
      BY <1>4, <1>5, <1>7, <2>2
    <3> QED BY <1>2, <3>1 DEF FitsScreen, Rooted
  <2> QED BY <2>1, <2>2
<1>18. Registered(t)
  <2> SUFFICES ASSUME NEW k \in Keys, card[k] # 0 PROVE card[k] \in 1..Len(cards) /\ cards[card[k]].key = k
    BY <1>11 DEF Registered
  <2>1. CASE k = key
    BY <1>5, <1>7, <1>8, <1>9, <2>1
  <2>2. CASE k # key
    <3>1. card[k] = s.card[k]
      BY <1>8, <2>2
    <3>2. card[k] \in 1..Len(s.cards) /\ s.cards[card[k]].key = k
      BY <2>2, <3>1 DEF FitsScreen, Registered
    <3> QED BY <1>5, <1>7, <3>2
  <2> QED BY <2>1, <2>2
<1>19. ASSUME Marked(s), t.errors = 0 PROVE MarkedCards(t)
  <2>1. MarkedCards(r)
    BY <1>1, <1>12, <1>19, QuietFits DEF Marked
  <2> SUFFICES ASSUME NEW i \in 1..Len(cards), cards[i].key \in CallIds, cards[i].status \in {"error", "rejected"}
               PROVE r.runs[cards[i].run]
    BY <1>11, <1>12 DEF MarkedCards
  <2>2. i # Len(s.cards) + 1
    BY <1>7, <1>9
  <2>3. i \in 1..Len(r.cards) /\ cards[i] = r.cards[i]
    BY <1>4, <1>5, <1>7, <2>2
  <2> QED BY <2>1, <2>3 DEF MarkedCards
<1> QED BY <1>11, <1>13, <1>14, <1>15, <1>16, <1>17, <1>18, <1>19 DEF Marked, t

\* The added card is a call's: the workers stay as they are shown.
LEMMA AddCallFits ==
  ASSUME NEW s, FitsScreen(s), NEW call \in CallIds
  PROVE  FitsScreen(AddCard(s, call))
<1> DEFINE t == AddCard(s, call)
<1>1. call \in Keys /\ \A w \in Workers : w \in Keys /\ w # call
  BY TranscriptAssumption DEF Keys
<1>2. /\ t \in Screens /\ Pointing(t) /\ Rooted(t) /\ Registered(t) /\ CardAdded(s, t, call) /\ SameTold(s, t)
  BY <1>1, AddCardAdds
<1> HIDE DEF t
<1>3. WorkersShown(t)
  <2> SUFFICES ASSUME NEW w \in Workers
               PROVE  IF t.card[w] = 0 THEN t.workers[w] = "none" ELSE t.cards[t.card[w]].status = ShownAs(t.workers[w])
    BY DEF WorkersShown
  <2>1. t.card[w] = s.card[w] /\ t.workers[w] = s.workers[w]
    <3>1. s.card \in [Keys -> Nat]
      BY DEF FitsScreen, Screens
    <3> QED BY <1>1, <1>2, <3>1 DEF CardAdded, SameTold
  <2>2. s.card[w] # 0 => s.card[w] \in 1..Len(s.cards)
    BY <1>1 DEF FitsScreen, Registered
  <2>3. s.card[w] # 0 => t.cards[s.card[w]] = s.cards[s.card[w]]
    BY <1>2, <2>2 DEF CardAdded
  <2>4. IF s.card[w] = 0 THEN s.workers[w] = "none" ELSE s.cards[s.card[w]].status = ShownAs(s.workers[w])
    BY DEF FitsScreen, WorkersShown
  <2> QED BY <2>1, <2>3, <2>4
<1> QED BY <1>2, <1>3 DEF FitsScreen, SameTold, t

\* A step that changes but the status of cards.
KeysKept(s, t) ==
  /\ Len(t.cards) = Len(s.cards) /\ t.card = s.card
  /\ \A i \in 1..Len(s.cards) : t.cards[i].key = s.cards[i].key /\ t.cards[i].run = s.cards[i].run
StatusKept(s, t, i) == t.cards[i].status = s.cards[i].status

LEMMA StatusFits ==
  ASSUME NEW s, FitsScreen(s), NEW t \in Screens, Pointing(t), KeysKept(s, t), SameTold(s, t),
         Len(s.runs) <= Len(t.runs),
         \A i \in 1..Len(s.cards) : s.cards[i].key \in Workers => StatusKept(s, t, i)
  PROVE  FitsScreen(t)
<1>1. Rooted(t)
  <2>1. Len(s.runs) \in Nat /\ Len(t.runs) \in Nat
    BY DEF FitsScreen, Screens
  <2> SUFFICES ASSUME NEW i \in 1..Len(t.cards) PROVE t.cards[i].run \in 1..Len(t.runs)
    BY DEF Rooted
  <2>2. t.cards[i].run \in 1..Len(s.runs)
    BY DEF FitsScreen, Rooted, KeysKept
  <2> QED BY <2>1, <2>2
<1>2. Registered(t)
  BY DEF FitsScreen, Registered, KeysKept
<1>3. WorkersShown(t)
  <2> SUFFICES ASSUME NEW w \in Workers
               PROVE  IF t.card[w] = 0 THEN t.workers[w] = "none" ELSE t.cards[t.card[w]].status = ShownAs(t.workers[w])
    BY DEF WorkersShown
  <2>1. w \in Keys /\ t.card[w] = s.card[w] /\ t.workers[w] = s.workers[w]
    BY DEF Keys, KeysKept, SameTold
  <2>2. s.card[w] # 0 => s.card[w] \in 1..Len(s.cards) /\ s.cards[s.card[w]].key = w
    BY <2>1 DEF FitsScreen, Registered
  <2>3. s.card[w] # 0 => t.cards[s.card[w]].status = s.cards[s.card[w]].status
    BY <2>2 DEF StatusKept
  <2>4. IF s.card[w] = 0 THEN s.workers[w] = "none" ELSE s.cards[s.card[w]].status = ShownAs(s.workers[w])
    BY DEF FitsScreen, WorkersShown
  <2> QED BY <2>1, <2>3, <2>4
<1> QED BY <1>1, <1>2, <1>3 DEF FitsScreen, SameTold

\* The result of a call is shown by its card, in a run that is marked if it failed.
LEMMA CardAnsweredFits ==
  ASSUME NEW s, FitsScreen(s), NEW call \in CallIds, NEW status \in {"success", "error", "rejected"}
  PROVE  LET t == CardAnswered(s, call, status) IN
         /\ FitsScreen(t) /\ (Marked(s) => Marked(t))
         /\ KeysKept(s, t) /\ SameTold(s, t) /\ SameWords(s, t) /\ t.thought = s.thought
         /\ \A i \in 1..Len(s.cards) : i # s.card[call] => StatusKept(s, t, i)
         /\ (s.card[call] # 0 /\ s.cards[s.card[call]].status = "running") =>
               t.cards[s.card[call]].status = status
<1> DEFINE t == CardAnswered(s, call, status)
           i == s.card[call]
           u == SetStatus(s, i, status)
<1>1. s \in Screens /\ Pointing(s) /\ call \in Keys /\ call \notin Workers
  BY TranscriptAssumption DEF FitsScreen, Keys
<1>2. s.cards \in Seq(DrawnCards) /\ Len(s.cards) \in Nat /\ Len(s.runs) \in Nat /\ s.runs \in Seq(BOOLEAN)
  BY <1>1 DEF Screens
<1>3. CASE i = 0
  <2>1. t = s
    BY <1>3 DEF CardAnswered
  <2> HIDE DEF t, u
  <2> QED BY <1>3, <2>1 DEF KeysKept, SameTold, SameWords, StatusKept, t, i
<1>4. CASE i # 0
  <2>1. i \in 1..Len(s.cards) /\ s.cards[i].key = call
    BY <1>1, <1>4 DEF FitsScreen, Registered
  <2>2. t = IF status = "success" THEN u ELSE MarkFailed(u, u.cards[i].run)
    BY <1>4, Zenon DEF CardAnswered
  <2> HIDE DEF t
  <2>3. /\ u \in Screens /\ Len(u.cards) = Len(s.cards)
        /\ \A j \in 1..Len(s.cards) : u.cards[j].key = s.cards[j].key /\ u.cards[j].run = s.cards[j].run
        /\ \A j \in 1..Len(s.cards) : j # i => u.cards[j].status = s.cards[j].status
        /\ u.cards[i].status \in {s.cards[i].status, status}
        /\ s.cards[i].status = "running" => u.cards[i].status = status
        /\ u.card = s.card /\ u.run = s.run /\ u.runs = s.runs
        /\ u.texts = s.texts /\ u.thoughts = s.thoughts /\ u.assistant = s.assistant /\ u.thought = s.thought
        /\ u.workers = s.workers /\ u.errors = s.errors /\ u.errorRendered = s.errorRendered
    <3>1. CASE s.cards[i].status = "rejected" /\ status # "success"
      <4>1. u = s
        BY <3>1 DEF SetStatus
      <4> HIDE DEF u, i
      <4> QED BY <1>1, <3>1, <4>1
    <3>2. CASE ~(s.cards[i].status = "rejected" /\ status # "success")
      <4> DEFINE cards == [s.cards EXCEPT ![i].status = status]
      <4>1. u = [s EXCEPT !.cards = cards]
        BY <1>1, <3>2 DEF SetStatus, Screens
      <4>2. s.cards[i] \in DrawnCards /\ status \in Statuses
        BY <1>2, <2>1 DEF Statuses
      <4>3. /\ [s.cards[i] EXCEPT !.status = status] \in DrawnCards
            /\ [s.cards[i] EXCEPT !.status = status].key = s.cards[i].key
            /\ [s.cards[i] EXCEPT !.status = status].run = s.cards[i].run
            /\ [s.cards[i] EXCEPT !.status = status].status = status
        BY <4>2 DEF DrawnCards
      <4> DEFINE card == [s.cards[i] EXCEPT !.status = status]
      <4>4. cards = [s.cards EXCEPT ![i] = card]
        OBVIOUS
      <4> HIDE DEF card, u
      <4>5. /\ cards \in Seq(DrawnCards) /\ Len(cards) = Len(s.cards) /\ cards[i] = card
            /\ \A j \in 1..Len(s.cards) : j # i => cards[j] = s.cards[j]
        BY <1>2, <2>1, <4>3, <4>4 DEF card
      <4> HIDE DEF cards
      <4>6. u \in Screens /\ u.cards = cards
        BY <1>1, <4>1, <4>5 DEF Screens
      <4>7. /\ u.card = s.card /\ u.run = s.run /\ u.runs = s.runs
            /\ u.texts = s.texts /\ u.thoughts = s.thoughts /\ u.assistant = s.assistant /\ u.thought = s.thought
            /\ u.workers = s.workers /\ u.errors = s.errors /\ u.errorRendered = s.errorRendered
        BY <1>1, <4>1 DEF Screens
      <4>8. \A j \in 1..Len(s.cards) : u.cards[j].key = s.cards[j].key /\ u.cards[j].run = s.cards[j].run
        <5> SUFFICES ASSUME NEW j \in 1..Len(s.cards)
                     PROVE  u.cards[j].key = s.cards[j].key /\ u.cards[j].run = s.cards[j].run
          OBVIOUS
        <5>1. CASE j = i
          BY <4>3, <4>5, <4>6, <5>1 DEF card
        <5>2. CASE j # i
          BY <4>5, <4>6, <5>2
        <5> QED BY <5>1, <5>2
      <4>9. \A j \in 1..Len(s.cards) : j # i => u.cards[j].status = s.cards[j].status
        BY <4>5, <4>6
      <4>10. u.cards[i].status = status
        BY <4>3, <4>5, <4>6 DEF card
      <4> QED BY <4>5, <4>6, <4>7, <4>8, <4>9, <4>10
    <3> QED BY <3>1, <3>2
  <2> HIDE DEF u
  <2>4. KeysKept(s, u) /\ SameTold(s, u) /\ SameWords(s, u) /\ Pointing(u)
    BY <1>1, <2>3 DEF KeysKept, SameTold, SameWords, Pointing
  <2>5. \A j \in 1..Len(s.cards) : j # i => StatusKept(s, u, j)
    BY <2>3 DEF StatusKept
  <2>6. FitsScreen(u)
    <3>1. \A j \in 1..Len(s.cards) : s.cards[j].key \in Workers => StatusKept(s, u, j)
      BY <1>1, <2>1, <2>5
    <3> HIDE DEF i
    <3> QED BY <1>2, <2>3, <2>4, <3>1, StatusFits
  <2>7. \A r : /\ Quiet(u, MarkFailed(u, r)) /\ SameWords(u, MarkFailed(u, r)) /\ MarkFailed(u, r).thought = u.thought
               /\ r \in 1..Len(u.runs) => MarkFailed(u, r).runs[r]
    BY <2>6, MarkFailedQuiet
  <2> DEFINE r == u.cards[i].run
             v == MarkFailed(u, r)
  <2>8. r \in 1..Len(u.runs) /\ r = s.cards[i].run
    BY <2>1, <2>3 DEF FitsScreen, Rooted
  <2>9. /\ Quiet(u, v) /\ SameWords(u, v) /\ v.thought = u.thought /\ v.runs[r]
    BY <2>7, <2>8
  <2> HIDE DEF r, v
  <2>10. FitsScreen(v) /\ v.cards = u.cards /\ v.card = u.card
    BY <2>6, <2>9, QuietFits DEF Quiet
  <2>11. ASSUME Marked(s), s.errors = 0, NEW j \in 1..Len(s.cards), j # i, u.cards[j].key \in CallIds,
                u.cards[j].status \in {"error", "rejected"}
         PROVE  u.runs[u.cards[j].run]
    <3>1. s.cards[j].key \in CallIds /\ s.cards[j].status \in {"error", "rejected"}
      BY <2>3, <2>11
    <3>2. s.runs[s.cards[j].run]
      BY <2>11, <3>1 DEF Marked, MarkedCards
    <3> QED BY <2>3, <3>2
  <2>12. CASE status = "success"
    <3>1. t = u
      BY <2>2, <2>12
    <3>2. ASSUME Marked(s), u.errors = 0 PROVE MarkedCards(u)
      <4> SUFFICES ASSUME NEW j \in 1..Len(u.cards), u.cards[j].key \in CallIds, u.cards[j].status \in {"error", "rejected"}
                   PROVE u.runs[u.cards[j].run]
        BY DEF MarkedCards
      <4>1. CASE j # i
        BY <2>3, <2>11, <3>2, <4>1
      <4>2. CASE j = i
        <5>1. s.cards[i].status \in {"error", "rejected"} /\ s.cards[i].key \in CallIds
          BY <2>1, <2>3, <2>12, <4>2
        <5>2. s.errors = 0
          BY <2>3, <3>2
        <5>3. s.runs[s.cards[i].run]
          BY <2>1, <3>2, <5>1, <5>2 DEF Marked, MarkedCards
        <5> QED BY <2>3, <2>8, <4>2, <5>3 DEF r
      <4> QED BY <4>1, <4>2
    <3> QED BY <2>3, <2>4, <2>5, <2>6, <3>1, <3>2 DEF Marked, t, i
  <2>13. CASE status # "success"
    <3>1. t = v
      BY <2>2, <2>13 DEF v, r
    <3>2. ASSUME Marked(s), v.errors = 0 PROVE MarkedCards(v)
      <4> SUFFICES ASSUME NEW j \in 1..Len(u.cards), u.cards[j].key \in CallIds, u.cards[j].status \in {"error", "rejected"}
                   PROVE v.runs[u.cards[j].run]
        BY <2>10 DEF MarkedCards
      <4>1. CASE j = i
        BY <2>9, <4>1 DEF r
      <4>2. CASE j # i
        <5>1. s.errors = 0
          BY <2>3, <2>9, <3>2 DEF Quiet
        <5>2. u.runs[u.cards[j].run]
          BY <2>3, <2>11, <3>2, <4>2, <5>1
        <5>3. u.cards[j].run \in 1..Len(u.runs)
          BY <2>6 DEF FitsScreen, Rooted
        <5> QED BY <2>9, <5>2, <5>3 DEF Quiet, RunsGrow
      <4> QED BY <4>1, <4>2
    <3>3. KeysKept(s, v) /\ SameTold(s, v) /\ SameWords(s, v) /\ v.thought = s.thought
      BY <2>3, <2>4, <2>9, <2>10 DEF KeysKept, SameTold, SameWords, Quiet
    <3>4. \A j \in 1..Len(s.cards) : j # i => StatusKept(s, v, j)
      BY <2>5, <2>10 DEF StatusKept
    <3>5. s.cards[i].status = "running" => v.cards[i].status = status
      BY <2>3, <2>10
    <3> QED BY <2>10, <3>1, <3>2, <3>3, <3>4, <3>5 DEF Marked, t, i
  <2> QED BY <2>12, <2>13
<1> QED BY <1>3, <1>4

\* The calls that still run are settled.
SettledIn(s, t) ==
  \A i \in 1..Len(s.cards) :
     t.cards[i].status = (IF (\E c \in CallIds : s.card[c] = i) /\ s.cards[i].status = "running"
                          THEN "error" ELSE s.cards[i].status)

LEMMA ActiveSettledFits ==
  ASSUME NEW s, FitsScreen(s)
  PROVE  LET t == ActiveSettled(s) IN
         /\ FitsScreen(t) /\ KeysKept(s, t) /\ SettledIn(s, t)
         /\ SameTold(s, t) /\ SameWords(s, t) /\ t.thought = s.thought /\ t.run = s.run /\ t.runs = s.runs
<1> DEFINE StillRuns(i) == (\E c \in CallIds : s.card[c] = i) /\ s.cards[i].status = "running"
           cards == [i \in 1..Len(s.cards) |-> IF StillRuns(i) THEN [s.cards[i] EXCEPT !.status = "error"] ELSE s.cards[i]]
           t == ActiveSettled(s)
<1>1. s \in Screens /\ Pointing(s)
  BY DEF FitsScreen
<1>2. s.cards \in Seq(DrawnCards) /\ Len(s.cards) \in Nat /\ DOMAIN s.cards = 1..Len(s.cards) /\ Len(s.runs) \in Nat
  BY <1>1 DEF Screens
<1>3. t = [s EXCEPT !.cards = cards]
  BY <1>1, <1>2 DEF ActiveSettled, Screens
<1>4. ASSUME NEW i \in 1..Len(s.cards)
      PROVE  /\ cards[i] \in DrawnCards /\ cards[i].key = s.cards[i].key /\ cards[i].run = s.cards[i].run
             /\ cards[i].status = IF StillRuns(i) THEN "error" ELSE s.cards[i].status
  <2>1. s.cards[i] \in DrawnCards /\ "error" \in Statuses
    BY <1>2 DEF Statuses
  <2> DEFINE card == [s.cards[i] EXCEPT !.status = "error"]
  <2>2. card \in DrawnCards /\ card.key = s.cards[i].key /\ card.run = s.cards[i].run /\ card.status = "error"
    BY <2>1 DEF DrawnCards
  <2>3. cards[i] = IF StillRuns(i) THEN card ELSE s.cards[i]
    OBVIOUS
  <2> HIDE DEF card, cards, StillRuns
  <2> QED BY <2>1, <2>2, <2>3
<1>5. cards \in Seq(DrawnCards) /\ Len(cards) = Len(s.cards)
  <2>1. \A i \in 1..Len(s.cards) : cards[i] \in DrawnCards
    BY <1>4
  <2>2. DOMAIN cards = 1..Len(s.cards)
    OBVIOUS
  <2>3. cards = [i \in 1..Len(s.cards) |-> cards[i]]
    OBVIOUS
  <2> HIDE DEF cards
  <2> QED BY <1>2, <2>1, <2>2, <2>3
<1> HIDE DEF cards, t
<1>6. t \in Screens /\ t.cards = cards
  BY <1>1, <1>3, <1>5 DEF Screens
<1>7. /\ t.card = s.card /\ t.run = s.run /\ t.runs = s.runs
      /\ t.texts = s.texts /\ t.thoughts = s.thoughts /\ t.assistant = s.assistant /\ t.thought = s.thought
      /\ t.workers = s.workers /\ t.errors = s.errors /\ t.errorRendered = s.errorRendered
  BY <1>1, <1>3 DEF Screens
<1>8. KeysKept(s, t) /\ SameTold(s, t) /\ SameWords(s, t) /\ Pointing(t)
  BY <1>1, <1>4, <1>5, <1>6, <1>7 DEF KeysKept, SameTold, SameWords, Pointing
<1>9. SettledIn(s, t)
  BY <1>4, <1>6 DEF SettledIn
<1>10. \A i \in 1..Len(s.cards) : s.cards[i].key \in Workers => StatusKept(s, t, i)
  <2> SUFFICES ASSUME NEW i \in 1..Len(s.cards), s.cards[i].key \in Workers, NEW c \in CallIds, s.card[c] = i PROVE FALSE
    BY <1>9, Zenon DEF SettledIn, StatusKept
  <2>1. c \in Keys /\ c \notin Workers
    BY TranscriptAssumption DEF Keys
  <2>2. s.card[c] # 0
    BY <1>2
  <2> QED BY <2>1, <2>2 DEF FitsScreen, Registered
<1>11. FitsScreen(t)
  BY <1>2, <1>6, <1>7, <1>8, <1>10, StatusFits
<1> QED BY <1>7, <1>8, <1>9, <1>11 DEF t

\* A step that leaves the cards of calls alone.
CallsAlike(s, t) ==
  /\ Len(s.cards) <= Len(t.cards)
  /\ \A i \in 1..Len(s.cards) :
        /\ t.cards[i].key = s.cards[i].key
        /\ s.cards[i].key \in CallIds => t.cards[i].status = s.cards[i].status
  /\ \A i \in 1..Len(t.cards) : i > Len(s.cards) => t.cards[i].key \notin CallIds
  /\ \A c \in CallIds : t.card[c] = s.card[c]

LEMMA CallsGoOnAlike ==
  ASSUME NEW s \in Screens, NEW t \in Screens, NEW u \in Screens, CallsAlike(s, t), CallsAlike(t, u)
  PROVE  CallsAlike(s, u)
<1>1. Len(s.cards) \in Nat /\ Len(t.cards) \in Nat /\ Len(u.cards) \in Nat
  <2>1. Len(s.cards) \in Nat
    BY DEF Screens
  <2>2. Len(t.cards) \in Nat
    BY DEF Screens
  <2>3. Len(u.cards) \in Nat
    BY DEF Screens
  <2> QED BY <2>1, <2>2, <2>3
<1>2. Len(s.cards) <= Len(u.cards)
  BY <1>1 DEF CallsAlike
<1>3. ASSUME NEW i \in 1..Len(s.cards)
      PROVE  /\ u.cards[i].key = s.cards[i].key
             /\ s.cards[i].key \in CallIds => u.cards[i].status = s.cards[i].status
  <2>1. i \in 1..Len(t.cards)
    BY <1>1 DEF CallsAlike
  <2> QED BY <2>1 DEF CallsAlike
<1>4. ASSUME NEW i \in 1..Len(u.cards), i > Len(s.cards) PROVE u.cards[i].key \notin CallIds
  <2>1. CASE i \in 1..Len(t.cards)
    BY <1>4, <2>1 DEF CallsAlike
  <2>2. CASE i \notin 1..Len(t.cards)
    BY <1>1, <2>2 DEF CallsAlike
  <2> QED BY <2>1, <2>2
<1>5. \A c \in CallIds : u.card[c] = s.card[c]
  BY DEF CallsAlike
<1> QED BY <1>2, <1>3, <1>4, <1>5 DEF CallsAlike

LEMMA QuietAlike ==
  ASSUME NEW s \in Screens, NEW t, Quiet(s, t) PROVE CallsAlike(s, t)
<1>1. Len(s.cards) \in Nat
  BY DEF Screens
<1> QED BY <1>1 DEF Quiet, CallsAlike

\* A report of a worker, with a new card or the one it has.
LEMMA WorkerCard ==
  ASSUME NEW s, FitsScreen(s), NEW w \in Workers, NEW t, t = IF s.card[w] = 0 THEN AddCard(s, w) ELSE InRun(s)
  PROVE  /\ t \in Screens /\ Pointing(t) /\ Rooted(t) /\ Registered(t) /\ SameTold(s, t) /\ SameWords(s, t)
         /\ (Marked(s) => Marked(t)) /\ CallsAlike(s, t)
         /\ t.card[w] \in 1..Len(t.cards) /\ t.cards[t.card[w]].key = w
         /\ \A v \in Workers : v # w =>
               /\ t.card[v] = s.card[v]
               /\ s.card[v] # 0 => s.card[v] \in 1..Len(t.cards) /\ t.cards[s.card[v]] = s.cards[s.card[v]]
<1>1. \A v \in Workers : v \in Keys /\ v \notin CallIds
  BY TranscriptAssumption DEF Keys
<1>2. s \in Screens /\ Len(s.cards) \in Nat /\ s.card \in [Keys -> Nat]
  BY DEF FitsScreen, Screens
<1>3. \A v \in Workers : s.card[v] # 0 => s.card[v] \in 1..Len(s.cards) /\ s.cards[s.card[v]].key = v
  BY <1>1 DEF FitsScreen, Registered
<1>4. CASE s.card[w] = 0
  <2>1. t = AddCard(s, w)
    BY <1>4
  <2>2. /\ t \in Screens /\ Pointing(t) /\ Rooted(t) /\ Registered(t)
        /\ CardAdded(s, t, w) /\ SameTold(s, t) /\ SameWords(s, t) /\ (Marked(s) => Marked(t))
    BY <1>1, <2>1, AddCardAdds
  <2>3. /\ Len(t.cards) = Len(s.cards) + 1 /\ \A i \in 1..Len(s.cards) : t.cards[i] = s.cards[i]
        /\ t.cards[Len(s.cards) + 1].key = w
        /\ t.card = [s.card EXCEPT ![w] = Len(s.cards) + 1]
    BY <2>2 DEF CardAdded
  <2>4. t.card[w] = Len(s.cards) + 1 /\ \A k \in Keys : k # w => t.card[k] = s.card[k]
    BY <1>1, <1>2, <2>3
  <2>5. CallsAlike(s, t)
    <3>1. \A i \in 1..Len(t.cards) : i > Len(s.cards) => t.cards[i].key \notin CallIds
      BY <1>1, <1>2, <2>3
    <3>2. \A c \in CallIds : t.card[c] = s.card[c]
      BY <1>1, <2>4 DEF Keys
    <3> QED BY <1>2, <2>3, <3>1, <3>2 DEF CallsAlike
  <2> QED BY <1>1, <1>2, <1>3, <2>2, <2>3, <2>4, <2>5
<1>5. CASE s.card[w] # 0
  <2>1. t = InRun(s)
    BY <1>5
  <2>2. Quiet(s, t) /\ SameWords(s, t)
    BY <2>1, InRunQuiet
  <2>3. FitsScreen(t) /\ (Marked(s) => Marked(t))
    BY <2>2, QuietFits
  <2>4. t.cards = s.cards /\ t.card = s.card /\ SameTold(s, t)
    BY <2>2 DEF Quiet, SameTold
  <2> QED BY <1>2, <1>3, <1>5, <2>2, <2>3, <2>4, QuietAlike DEF FitsScreen
<1> QED BY <1>4, <1>5

LEMMA WorkerDrawnFits ==
  ASSUME NEW s, FitsScreen(s), NEW w \in Workers, NEW report \in Nat \cup Outcomes \cup Reports \cup {"none"}
  PROVE  LET t == WorkerDrawn(s, w, report) IN
         /\ FitsScreen(t) /\ (Marked(s) => Marked(t)) /\ CallsAlike(s, t) /\ SameWords(s, t)
         /\ t.workers = [s.workers EXCEPT ![w] = Normalized(@, report)] /\ t.errors = s.errors
         /\ \A v \in Workers : t.card[v] = 0 <=> (s.card[v] = 0 /\ v # w)
<1> DEFINE status == Normalized(s.workers[w], report)
           t == IF s.card[w] = 0 THEN AddCard(s, w) ELSE InRun(s)
           i == t.card[w]
           drawn == IF status = "failed" THEN "error" ELSE status
           u == [t EXCEPT !.workers[w] = status, !.cards[i].status = drawn]
           all == WorkerDrawn(s, w, report)
<1>1. all = IF status \in {"failed", "cancelled"} THEN MarkFailed(u, u.run) ELSE u
  BY Zenon DEF WorkerDrawn
<1>2. /\ t \in Screens /\ Pointing(t) /\ Rooted(t) /\ Registered(t) /\ SameTold(s, t) /\ SameWords(s, t)
      /\ (Marked(s) => Marked(t)) /\ CallsAlike(s, t)
      /\ i \in 1..Len(t.cards) /\ t.cards[i].key = w
      /\ \A v \in Workers : v # w =>
            /\ t.card[v] = s.card[v]
            /\ s.card[v] # 0 => s.card[v] \in 1..Len(t.cards) /\ t.cards[s.card[v]] = s.cards[s.card[v]]
  BY WorkerCard
<1>3. s.workers \in [Workers -> Statuses] /\ s.workers[w] \in Statuses
  BY DEF FitsScreen, Screens
<1>4. status \in Statuses /\ drawn \in Statuses
  BY <1>3 DEF Normalized, Statuses
<1>a. drawn = ShownAs(status)
  BY DEF ShownAs
<1>b. [s.workers EXCEPT ![w] = Normalized(@, report)] = [s.workers EXCEPT ![w] = status]
  OBVIOUS
<1>c. \A v \in Workers : v \in Keys /\ v \notin CallIds
  BY TranscriptAssumption DEF Keys
<1> HIDE DEF t, status, drawn, all
<1>5. /\ t.cards \in Seq(DrawnCards) /\ Len(t.cards) \in Nat /\ t.workers = s.workers
      /\ t.errors = s.errors /\ t.errorRendered = s.errorRendered
  BY <1>2 DEF Screens, SameTold
<1> DEFINE card == [t.cards[i] EXCEPT !.status = drawn]
           cards == [t.cards EXCEPT ![i] = card]
           workers == [s.workers EXCEPT ![w] = status]
<1>6. card \in DrawnCards /\ card.key = w /\ card.run = t.cards[i].run /\ card.status = drawn
  <2>1. t.cards[i] \in DrawnCards
    BY <1>2, <1>5
  <2> QED BY <1>2, <1>4, <2>1 DEF DrawnCards
<1>7. u = [t EXCEPT !.workers = workers, !.cards = cards]
  BY <1>2, <1>5 DEF Screens
<1> HIDE DEF card, u, i
<1>8. /\ cards \in Seq(DrawnCards) /\ Len(cards) = Len(t.cards) /\ cards[i] = card
      /\ \A j \in 1..Len(t.cards) : j # i => cards[j] = t.cards[j]
  BY <1>2, <1>5, <1>6
<1>9. workers \in [Workers -> Statuses] /\ workers[w] = status /\ \A v \in Workers : v # w => workers[v] = s.workers[v]
  BY <1>3, <1>4
<1> HIDE DEF cards, workers
<1>10. u \in Screens /\ u.cards = cards /\ u.workers = workers
  BY <1>2, <1>7, <1>8, <1>9 DEF Screens
<1>11. /\ u.card = t.card /\ u.run = t.run /\ u.runs = t.runs
       /\ u.texts = t.texts /\ u.thoughts = t.thoughts /\ u.assistant = t.assistant /\ u.thought = t.thought
       /\ u.errors = t.errors /\ u.errorRendered = t.errorRendered
  BY <1>2, <1>7 DEF Screens
<1>12. \A j \in 1..Len(t.cards) : cards[j].key = t.cards[j].key /\ cards[j].run = t.cards[j].run
  <2> SUFFICES ASSUME NEW j \in 1..Len(t.cards) PROVE cards[j].key = t.cards[j].key /\ cards[j].run = t.cards[j].run
    OBVIOUS
  <2>1. CASE j = i
    BY <1>2, <1>6, <1>8, <2>1
  <2>2. CASE j # i
    BY <1>8, <2>2
  <2> QED BY <2>1, <2>2
<1>13. Pointing(u) /\ Rooted(u) /\ Registered(u)
  <2>1. Pointing(u)
    BY <1>2, <1>11 DEF Pointing
  <2>2. Rooted(u)
    BY <1>2, <1>8, <1>10, <1>11, <1>12 DEF Rooted
  <2>3. Registered(u)
    BY <1>2, <1>8, <1>10, <1>11, <1>12 DEF Registered
  <2> QED BY <2>1, <2>2, <2>3
<1>14. WorkersShown(u)
  <2> SUFFICES ASSUME NEW v \in Workers
               PROVE  IF u.card[v] = 0 THEN u.workers[v] = "none" ELSE u.cards[u.card[v]].status = ShownAs(u.workers[v])
    BY DEF WorkersShown
  <2>1. CASE v = w
    <3>1. u.card[w] = i /\ i # 0
      BY <1>2, <1>5, <1>11 DEF i
    <3> QED BY <1>6, <1>8, <1>9, <1>10, <1>a, <2>1, <3>1
  <2>2. CASE v # w
    <3>1. IF s.card[v] = 0 THEN s.workers[v] = "none" ELSE s.cards[s.card[v]].status = ShownAs(s.workers[v])
      BY DEF FitsScreen, WorkersShown
    <3>2. u.card[v] = s.card[v] /\ u.workers[v] = s.workers[v]
      BY <1>2, <1>9, <1>10, <1>11, <2>2
    <3>3. ASSUME s.card[v] # 0 PROVE u.cards[s.card[v]] = s.cards[s.card[v]]
      <4>1. s.card[v] \in 1..Len(t.cards) /\ t.cards[s.card[v]] = s.cards[s.card[v]]
        BY <1>2, <2>2, <3>3
      <4>2. s.cards[s.card[v]].key = v
        BY <1>c, <3>3 DEF FitsScreen, Registered
      <4>3. s.card[v] # i
        BY <1>2, <2>2, <4>1, <4>2
      <4> QED BY <1>8, <1>10, <4>1, <4>3
    <3> QED BY <3>1, <3>2, <3>3
  <2> QED BY <2>1, <2>2
<1>15. FitsScreen(u)
  <2>1. s.errorRendered <=> s.errors # 0
    BY DEF FitsScreen
  <2>2. u.errorRendered <=> u.errors # 0
    BY <1>5, <1>11, <2>1
  <2> QED BY <1>10, <1>13, <1>14, <2>2 DEF FitsScreen
<1>16. ASSUME Marked(s) PROVE Marked(u)
  <2> SUFFICES ASSUME u.errors = 0, NEW j \in 1..Len(cards), cards[j].key \in CallIds, cards[j].status \in {"error", "rejected"}
               PROVE u.runs[cards[j].run]
    BY <1>10 DEF Marked, MarkedCards
  <2>1. Marked(t) /\ t.errors = 0
    BY <1>2, <1>11, <1>16
  <2>2. j # i
    BY <1>6, <1>8, <1>c
  <2>3. j \in 1..Len(t.cards) /\ cards[j] = t.cards[j]
    BY <1>8, <2>2
  <2>4. t.runs[t.cards[j].run]
    BY <2>1, <2>3 DEF Marked, MarkedCards
  <2> QED BY <1>11, <2>3, <2>4
<1>17. CallsAlike(s, u)
  <2>1. CallsAlike(t, u)
    <3>1. ASSUME NEW j \in 1..Len(t.cards), t.cards[j].key \in CallIds PROVE u.cards[j].status = t.cards[j].status
      <4>1. j # i
        BY <1>2, <1>c, <3>1
      <4> QED BY <1>8, <1>10, <4>1
    <3> QED BY <1>5, <1>8, <1>10, <1>11, <1>12, <3>1 DEF CallsAlike
  <2>2. s \in Screens
    BY DEF FitsScreen
  <2> QED BY <1>2, <1>10, <2>1, <2>2, CallsGoOnAlike
<1>18. \A v \in Workers : u.card[v] = 0 <=> (s.card[v] = 0 /\ v # w)
  <2> SUFFICES ASSUME NEW v \in Workers PROVE u.card[v] = 0 <=> (s.card[v] = 0 /\ v # w)
    OBVIOUS
  <2>1. CASE v = w
    BY <1>2, <1>5, <1>11, <2>1 DEF i
  <2>2. CASE v # w
    BY <1>2, <1>11, <2>2
  <2> QED BY <2>1, <2>2
<1>19. SameWords(s, u) /\ u.workers = [s.workers EXCEPT ![w] = Normalized(@, report)] /\ u.errors = s.errors
  <2>1. SameWords(s, u)
    BY <1>2, <1>11 DEF SameWords
  <2>2. u.workers = [s.workers EXCEPT ![w] = Normalized(@, report)]
    BY <1>10, <1>b DEF workers
  <2> QED BY <1>5, <1>11, <2>1, <2>2
<1> DEFINE v == MarkFailed(u, u.run)
<1>20. Quiet(u, v) /\ SameWords(u, v)
  BY <1>15, MarkFailedQuiet
<1> HIDE DEF v
<1>21. FitsScreen(v) /\ (Marked(u) => Marked(v)) /\ CallsAlike(u, v)
  BY <1>10, <1>15, <1>20, QuietFits, QuietAlike
<1>22. CallsAlike(s, v)
  <2>1. s \in Screens /\ v \in Screens
    BY <1>21 DEF FitsScreen
  <2> QED BY <1>10, <1>17, <1>21, <2>1, CallsGoOnAlike
<1>23. SameWords(s, v) /\ v.workers = u.workers /\ v.errors = u.errors /\ v.card = u.card
  BY <1>19, <1>20 DEF SameWords, Quiet
<1>24. CASE all = u
  BY <1>15, <1>16, <1>17, <1>18, <1>19, <1>24 DEF all
<1>25. CASE all = v
  BY <1>16, <1>18, <1>19, <1>21, <1>22, <1>23, <1>25 DEF all
<1> QED BY <1>1, <1>24, <1>25 DEF v

LEMMA ErrorDrawnFits ==
  ASSUME NEW s, FitsScreen(s)
  PROVE  LET t == ErrorDrawn(s) IN
         /\ FitsScreen(t) /\ Marked(t) /\ KeysKept(s, t) /\ SettledIn(s, t) /\ SameWords(s, t)
         /\ t.workers = s.workers /\ t.errors = s.errors + 1
<1> DEFINE a == ActiveSettled(s)
           b == MarkFailed(a, a.run)
           c == RunClosed(b)
           t == ErrorDrawn(s)
<1>1. t = [c EXCEPT !.errorRendered = TRUE, !.errors = @ + 1]
  BY Zenon DEF ErrorDrawn
<1>2. FitsScreen(a) /\ KeysKept(s, a) /\ SettledIn(s, a) /\ SameTold(s, a) /\ SameWords(s, a)
  BY ActiveSettledFits
<1> HIDE DEF a
<1>3. Quiet(a, b) /\ SameWords(a, b)
  BY <1>2, MarkFailedQuiet
<1> HIDE DEF b
<1>4. FitsScreen(b)
  BY <1>2, <1>3, QuietFits
<1>5. Quiet(b, c) /\ SameWords(b, c)
  BY <1>4, RunClosedQuiet
<1> HIDE DEF c, t
<1>6. FitsScreen(c)
  BY <1>4, <1>5, QuietFits
<1>7. c.cards = a.cards /\ c.card = a.card /\ c.texts = s.texts /\ c.thoughts = s.thoughts /\ c.workers = s.workers /\ c.errors = s.errors
  BY <1>2, <1>3, <1>5 DEF Quiet, SameWords, SameTold
<1>8. c \in Screens /\ c.errors \in Nat
  BY <1>6 DEF FitsScreen, Screens
<1>9. t \in Screens /\ t.errorRendered = TRUE /\ t.errors = c.errors + 1
  <2>1. TRUE \in BOOLEAN /\ c.errors + 1 \in Nat
    BY <1>8
  <2>2. t \in Screens
    BY <1>1, <1>8, <2>1 DEF Screens
  <2>3. t.errorRendered = TRUE
    BY <1>1, <1>8 DEF Screens
  <2>4. t.errors = c.errors + 1
    BY <1>1, <1>8 DEF Screens
  <2> QED BY <2>2, <2>3, <2>4
<1>10. /\ t.cards = c.cards /\ t.card = c.card /\ t.run = c.run /\ t.runs = c.runs
       /\ t.texts = c.texts /\ t.thoughts = c.thoughts /\ t.assistant = c.assistant /\ t.thought = c.thought
       /\ t.workers = c.workers
  BY <1>1, <1>8 DEF Screens
<1>11. t.errors # 0
  BY <1>8, <1>9
<1>12. FitsScreen(t)
  <2>1. Pointing(t)
    BY <1>6, <1>10 DEF FitsScreen, Pointing
  <2>2. Rooted(t) /\ Registered(t) /\ WorkersShown(t)
    BY <1>6, <1>10 DEF FitsScreen, Rooted, Registered, WorkersShown
  <2> QED BY <1>9, <1>11, <2>1, <2>2 DEF FitsScreen
<1>13. KeysKept(s, t) /\ SettledIn(s, t)
  BY <1>2, <1>7, <1>10 DEF KeysKept, SettledIn
<1>14. SameWords(s, t)
  <2>1. c.assistant \in {0, s.assistant}
    BY <1>2, <1>3, <1>5 DEF SameWords
  <2> QED BY <1>7, <1>10, <2>1 DEF SameWords
<1> QED BY <1>7, <1>9, <1>10, <1>11, <1>12, <1>13, <1>14 DEF Marked, t

----------------------------------------------------------------------------
(* An event is drawn *)

\* The events of a turn without numbers.
Drawables ==
  {e \in TurnEvents :
     /\ e.seq = NoSequence
     /\ e.type = "reasoning" => e.val \in Nat
     /\ e.type \in {"request", "result"} => e.key \in CallIds
     /\ e.type = "worker" => e.key \in Workers}

ReportOf(e, w) == e.type = "worker" /\ e.val # "keepalive" /\ e.key = w

\* The result of a call is shown by its card and by no other.
AnsweredIn(s, t, call, status) ==
  /\ KeysKept(s, t)
  /\ \A i \in 1..Len(s.cards) : i # s.card[call] => StatusKept(s, t, i)
  /\ (s.card[call] # 0 /\ s.cards[s.card[call]].status = "running") => t.cards[s.card[call]].status = status

\* What an event adds beside the cards of calls.
Grown(s, e, t) ==
  /\ FitsScreen(t) /\ (Marked(s) => Marked(t))
  /\ Flat(t.texts) = (IF e.type = "text" THEN Append(Flat(s.texts), e.val) ELSE Flat(s.texts))
  /\ Flat(t.thoughts) = (IF e.type = "reasoning" THEN Append(Flat(s.thoughts), e.val) ELSE Flat(s.thoughts))
  /\ t.workers = DigestStep(s.workers, e)
  /\ t.errors = (IF e.type = "error" THEN s.errors + 1 ELSE s.errors)
  /\ \A w \in Workers : t.card[w] = 0 <=> (s.card[w] = 0 /\ ~ReportOf(e, w))

\* What it does to them.
CardsDrawn(s, e, t) ==
  /\ e.type \in {"text", "reasoning", "worker", "final"} => CallsAlike(s, t)
  /\ e.type = "request" => CardAdded(s, t, e.key)
  /\ e.type = "result" => AnsweredIn(s, t, e.key, Status(e.val))
  /\ e.type = "error" => KeysKept(s, t) /\ SettledIn(s, t)

LEMMA DrawableIs ==
  ASSUME NEW e \in Drawables
  PROVE  /\ e \in TurnEvents /\ e.attempt = NoAttempt /\ e.turn \in Nat /\ e.seq = NoSequence
         /\ e.type \in {"text", "reasoning", "request", "result", "worker", "final", "error"}
         /\ e.val \in Nat \cup Outcomes \cup Reports \cup {"none"}
         /\ e.type \in {"text", "reasoning"} => e.val \in Nat
<1>1. e \in TurnEvents /\ e.seq = NoSequence /\ (e.type = "reasoning" => e.val \in Nat)
  BY DEF Drawables
<1>2. CASE e \in [type : {"text"}, key : {"none"}, val : Nat, turn : Nat, attempt : {NoAttempt}, seq : Nat]
  BY <1>1, <1>2
<1>3. CASE e \in [type : {"reasoning", "request", "result", "worker", "final", "error"}, key : Keys \cup {"none"},
                  val : Nat \cup Outcomes \cup Reports \cup {"none"}, turn : Nat, attempt : {NoAttempt}, seq : Nat]
  BY <1>1, <1>3
<1> QED BY <1>1, <1>2, <1>3 DEF TurnEvents

\* The gate lets it through, and is all that the gate changes.
LEMMA GateQuiet ==
  ASSUME NEW s, FitsScreen(s), NEW e \in Drawables
  PROVE  LET t == [s EXCEPT !.gate = Applied(@, e)] IN
         Draw(s, e) = Drawn(t, e) /\ FitsScreen(t) /\ Quiet(s, t) /\ SameWords(s, t)
<1> DEFINE gate == Applied(s.gate, e)
           t == [s EXCEPT !.gate = Applied(@, e)]
<1>1. s \in Screens /\ Pointing(s)
  BY DEF FitsScreen
<1>2. e.attempt = NoAttempt /\ e.turn \in Nat /\ e.seq = NoSequence
  BY DrawableIs
<1>3. Accepts(s.gate, e)
  BY <1>2 DEF Accepts, OlderAttempt
<1>4. gate \in [turn : Nat \cup {NoTurn}, attempt : {NoAttempt}, last : {NoSequence}]
  <2>1. s.gate \in [turn : Nat \cup {NoTurn}, attempt : {NoAttempt}, last : {NoSequence}]
    BY <1>1 DEF Screens
  <2>2. gate = Entered(s.gate, e)
    BY <1>2 DEF Applied, OlderAttempt
  <2>3. Entered(s.gate, e) = IF NewTurn(s.gate, e) THEN [turn |-> e.turn, attempt |-> e.attempt, last |-> NoSequence] ELSE s.gate
    BY <1>2 DEF Entered, NewerAttempt
  <2> HIDE DEF gate
  <2> QED BY <1>2, <2>1, <2>2, <2>3
<1>5. t = [s EXCEPT !.gate = gate]
  BY <1>1 DEF Screens
<1>6. Draw(s, e) = Drawn(t, e)
  BY <1>3 DEF Draw
<1> HIDE DEF t, gate
<1>7. t \in Screens
  BY <1>1, <1>4, <1>5 DEF Screens
<1>8. /\ t.cards = s.cards /\ t.card = s.card /\ t.workers = s.workers /\ t.errors = s.errors
      /\ t.errorRendered = s.errorRendered /\ t.texts = s.texts /\ t.thoughts = s.thoughts
      /\ t.assistant = s.assistant /\ t.thought = s.thought /\ t.run = s.run /\ t.runs = s.runs
  BY <1>1, <1>5 DEF Screens
<1>9. RunsGrow(s, t)
  <2>1. Len(s.runs) \in Nat
    BY <1>1 DEF Screens
  <2> QED BY <1>8, <2>1 DEF RunsGrow
<1>10. Pointing(t)
  BY <1>1, <1>8 DEF Pointing
<1>11. Quiet(s, t) /\ SameWords(s, t)
  BY <1>7, <1>8, <1>9, <1>10 DEF Quiet, SameWords
<1> QED BY <1>6, <1>11, QuietFits DEF t

\* An event that leaves cards and workers alone.
LEMMA QuietGrown ==
  ASSUME NEW s, FitsScreen(s), NEW e \in Drawables, NEW t, Quiet(s, t),
         e.type \in {"text", "reasoning", "final"} \/ (e.type = "worker" /\ e.val = "keepalive"),
         Flat(t.texts) = (IF e.type = "text" THEN Append(Flat(s.texts), e.val) ELSE Flat(s.texts)),
         Flat(t.thoughts) = (IF e.type = "reasoning" THEN Append(Flat(s.thoughts), e.val) ELSE Flat(s.thoughts))
  PROVE  Grown(s, e, t) /\ CardsDrawn(s, e, t)
<1>1. s \in Screens
  BY DEF FitsScreen
<1>2. FitsScreen(t) /\ (Marked(s) => Marked(t)) /\ CallsAlike(s, t)
  BY <1>1, QuietFits, QuietAlike
<1>3. t.workers = s.workers /\ t.errors = s.errors /\ t.card = s.card
  BY DEF Quiet
<1>4. DigestStep(s.workers, e) = s.workers /\ e.type # "error" /\ \A w \in Workers : ~ReportOf(e, w)
  BY DEF DigestStep, ReportOf
<1>5. Grown(s, e, t)
  BY <1>2, <1>3, <1>4 DEF Grown
<1>6. CardsDrawn(s, e, t)
  BY <1>2 DEF CardsDrawn
<1> QED BY <1>5, <1>6

LEMMA TextDrawn ==
  ASSUME NEW s, FitsScreen(s), NEW e \in Drawables, e.type \in {"text", "reasoning", "final"}
  PROVE  Grown(s, e, Drawn(s, e)) /\ CardsDrawn(s, e, Drawn(s, e))
<1> DEFINE r == RunClosed(s)
<1>1. Quiet(s, r) /\ SameWords(s, r)
  BY RunClosedQuiet
<1>2. FitsScreen(r) /\ s \in Screens
  BY <1>1, QuietFits DEF FitsScreen
<1>3. CASE e.type = "text"
  <2>1. Drawn(s, e) = Speak(r, e.val) /\ e.val \in Nat
    BY <1>3, DrawableIs DEF Drawn
  <2> HIDE DEF r
  <2>2. /\ Quiet(r, Drawn(s, e)) /\ Drawn(s, e).thoughts = r.thoughts
        /\ Flat(Drawn(s, e).texts) = Append(Flat(r.texts), e.val)
    BY <1>2, <2>1, SpeakQuiet
  <2>3. Quiet(s, Drawn(s, e))
    BY <1>1, <1>2, <2>2, QuietGoesOn
  <2>4. Flat(Drawn(s, e).texts) = Append(Flat(s.texts), e.val) /\ Flat(Drawn(s, e).thoughts) = Flat(s.thoughts)
    BY <1>1, <2>2 DEF SameWords
  <2> QED BY <1>3, <2>3, <2>4, QuietGrown
<1>4. CASE e.type = "reasoning"
  <2>1. Drawn(s, e) = Think(s, e.val) /\ e.val \in Nat
    BY <1>4, DrawableIs DEF Drawn
  <2>2. /\ Quiet(s, Drawn(s, e)) /\ Drawn(s, e).texts = s.texts
        /\ Flat(Drawn(s, e).thoughts) = Append(Flat(s.thoughts), e.val)
    BY <2>1, ThinkQuiet
  <2> QED BY <1>4, <2>2, QuietGrown
<1>5. CASE e.type = "final"
  <2>1. Drawn(s, e) = r
    BY <1>5 DEF Drawn
  <2> HIDE DEF r
  <2> QED BY <1>1, <1>5, <2>1, QuietGrown DEF SameWords
<1> QED BY <1>3, <1>4, <1>5

LEMMA CallAskedDrawn ==
  ASSUME NEW s, FitsScreen(s), NEW e \in Drawables, e.type = "request"
  PROVE  Grown(s, e, Drawn(s, e)) /\ CardsDrawn(s, e, Drawn(s, e))
<1> DEFINE r == StreamsClosed(s)
           t == AddCard(r, e.key)
<1>1. Quiet(s, r) /\ SameWords(s, r)
  BY StreamsClosedQuiet
<1>2. FitsScreen(r) /\ (Marked(s) => Marked(r)) /\ s \in Screens
  BY <1>1, QuietFits DEF FitsScreen
<1>3. Drawn(s, e) = t
  BY DEF Drawn
<1>4. e.key \in CallIds /\ e.key \in Keys /\ \A w \in Workers : w # e.key /\ w \in Keys
  BY TranscriptAssumption DEF Drawables, Keys
<1> HIDE DEF r
<1>5. FitsScreen(t)
  BY <1>2, <1>4, AddCallFits
<1>6. CardAdded(r, t, e.key) /\ SameTold(r, t) /\ SameWords(r, t) /\ (Marked(r) => Marked(t))
  BY <1>2, <1>4, AddCardAdds
<1> HIDE DEF t
<1>7. CardAdded(s, t, e.key)
  BY <1>1, <1>6 DEF Quiet, CardAdded
<1>8. s.card \in [Keys -> Nat]
  BY <1>2 DEF Screens
<1>9. \A w \in Workers : t.card[w] = s.card[w]
  BY <1>4, <1>7, <1>8 DEF CardAdded
<1>10. DigestStep(s.workers, e) = s.workers /\ \A w \in Workers : ~ReportOf(e, w)
  BY DEF DigestStep, ReportOf
<1>11. t.texts = s.texts /\ t.thoughts = s.thoughts /\ t.workers = s.workers /\ t.errors = s.errors
  BY <1>1, <1>6 DEF Quiet, SameWords, SameTold
<1>12. Grown(s, e, t)
  BY <1>2, <1>5, <1>6, <1>9, <1>10, <1>11 DEF Grown
<1> QED BY <1>3, <1>7, <1>12 DEF CardsDrawn

LEMMA CallAnsweredDrawn ==
  ASSUME NEW s, FitsScreen(s), NEW e \in Drawables, e.type = "result"
  PROVE  Grown(s, e, Drawn(s, e)) /\ CardsDrawn(s, e, Drawn(s, e))
<1> DEFINE u == CardAnswered(s, e.key, Status(e.val))
           t == StreamsClosed(u)
<1>1. Drawn(s, e) = t
  BY DEF Drawn
<1>2. e.key \in CallIds /\ Status(e.val) \in {"success", "error", "rejected"}
  BY DEF Drawables, Status
<1>3. /\ FitsScreen(u) /\ (Marked(s) => Marked(u))
      /\ KeysKept(s, u) /\ SameTold(s, u) /\ SameWords(s, u)
      /\ \A i \in 1..Len(s.cards) : i # s.card[e.key] => StatusKept(s, u, i)
      /\ (s.card[e.key] # 0 /\ s.cards[s.card[e.key]].status = "running") =>
            u.cards[s.card[e.key]].status = Status(e.val)
  BY <1>2, CardAnsweredFits
<1> HIDE DEF u
<1>4. Quiet(u, t) /\ SameWords(u, t)
  BY <1>3, StreamsClosedQuiet
<1> HIDE DEF t
<1>5. FitsScreen(t) /\ (Marked(u) => Marked(t)) /\ t.cards = u.cards /\ t.card = u.card
  BY <1>3, <1>4, QuietFits DEF Quiet
<1>6. t.texts = s.texts /\ t.thoughts = s.thoughts /\ t.workers = s.workers /\ t.errors = s.errors
  BY <1>3, <1>4 DEF Quiet, SameWords, SameTold
<1>7. AnsweredIn(s, t, e.key, Status(e.val))
  BY <1>3, <1>5 DEF AnsweredIn, KeysKept, StatusKept
<1>8. t.card = s.card
  BY <1>7 DEF AnsweredIn, KeysKept
<1>9. DigestStep(s.workers, e) = s.workers /\ \A w \in Workers : ~ReportOf(e, w)
  BY DEF DigestStep, ReportOf
<1>10. Grown(s, e, t)
  BY <1>3, <1>5, <1>6, <1>8, <1>9 DEF Grown
<1> QED BY <1>1, <1>7, <1>10 DEF CardsDrawn

LEMMA ReportDrawn ==
  ASSUME NEW s, FitsScreen(s), NEW e \in Drawables, e.type = "worker"
  PROVE  Grown(s, e, Drawn(s, e)) /\ CardsDrawn(s, e, Drawn(s, e))
<1>1. CASE e.val = "keepalive"
  <2>1. Drawn(s, e) = s
    BY <1>1 DEF Drawn
  <2>2. Quiet(s, s)
    <3>1. s \in Screens /\ Pointing(s)
      BY DEF FitsScreen
    <3>2. Len(s.runs) \in Nat
      BY <3>1 DEF Screens
    <3> QED BY <3>1, <3>2 DEF Quiet, RunsGrow
  <2> QED BY <1>1, <2>1, <2>2, QuietGrown
<1>2. CASE e.val # "keepalive"
  <2> DEFINE w == e.key
             t == WorkerDrawn(s, w, e.val)
  <2>1. Drawn(s, e) = t
    BY <1>2 DEF Drawn
  <2>2. w \in Workers /\ e.val \in Nat \cup Outcomes \cup Reports \cup {"none"}
    BY DrawableIs DEF Drawables
  <2>3. /\ FitsScreen(t) /\ (Marked(s) => Marked(t)) /\ CallsAlike(s, t) /\ SameWords(s, t)
        /\ t.workers = [s.workers EXCEPT ![w] = Normalized(@, e.val)] /\ t.errors = s.errors
        /\ \A v \in Workers : t.card[v] = 0 <=> (s.card[v] = 0 /\ v # w)
    <3>1. /\ FitsScreen(t) /\ (Marked(s) => Marked(t)) /\ CallsAlike(s, t) /\ SameWords(s, t)
          /\ t.workers = [s.workers EXCEPT ![w] = Normalized(@, e.val)] /\ t.errors = s.errors
          /\ \A v \in Workers : t.card[v] = 0 <=> (s.card[v] = 0 /\ v # w)
      <4> DEFINE report == e.val
      <4>1. w \in Workers /\ report \in Nat \cup Outcomes \cup Reports \cup {"none"}
        BY <2>2
      <4> HIDE DEF w, report
      <4>2. LET u == WorkerDrawn(s, w, report) IN
            /\ FitsScreen(u) /\ (Marked(s) => Marked(u)) /\ CallsAlike(s, u) /\ SameWords(s, u)
            /\ u.workers = [s.workers EXCEPT ![w] = Normalized(@, report)] /\ u.errors = s.errors
            /\ \A v \in Workers : u.card[v] = 0 <=> (s.card[v] = 0 /\ v # w)
        BY <4>1, WorkerDrawnFits
      <4> QED BY <4>2, Zenon DEF report
    <3> QED BY <3>1
  <2>4. DigestStep(s.workers, e) = [s.workers EXCEPT ![w] = Normalized(@, e.val)]
    BY <1>2 DEF DigestStep
  <2>5. \A v \in Workers : ReportOf(e, v) <=> v = w
    BY <1>2 DEF ReportOf
  <2> HIDE DEF t, w
  <2>6. Grown(s, e, t)
    BY <2>3, <2>4, <2>5 DEF Grown, SameWords
  <2> QED BY <2>1, <2>3, <2>6 DEF CardsDrawn
<1> QED BY <1>1, <1>2

LEMMA FailureDrawn ==
  ASSUME NEW s, FitsScreen(s), NEW e \in Drawables, e.type = "error"
  PROVE  Grown(s, e, Drawn(s, e)) /\ CardsDrawn(s, e, Drawn(s, e))
<1> DEFINE t == ErrorDrawn(s)
<1>1. Drawn(s, e) = t
  BY DEF Drawn
<1>2. /\ FitsScreen(t) /\ Marked(t) /\ KeysKept(s, t) /\ SettledIn(s, t) /\ SameWords(s, t)
      /\ t.workers = s.workers /\ t.errors = s.errors + 1
  BY ErrorDrawnFits
<1> HIDE DEF t
<1>3. DigestStep(s.workers, e) = s.workers /\ \A w \in Workers : ~ReportOf(e, w)
  BY DEF DigestStep, ReportOf
<1>4. t.card = s.card
  BY <1>2 DEF KeysKept
<1>5. Grown(s, e, t)
  BY <1>2, <1>3, <1>4 DEF Grown, SameWords
<1> QED BY <1>1, <1>2, <1>5 DEF CardsDrawn

LEMMA DrawGrows ==
  ASSUME NEW s, FitsScreen(s), NEW e \in Drawables
  PROVE  Grown(s, e, Draw(s, e)) /\ CardsDrawn(s, e, Draw(s, e))
<1> DEFINE g == [s EXCEPT !.gate = Applied(@, e)]
           t == Draw(s, e)
<1>1. t = Drawn(g, e) /\ FitsScreen(g) /\ Quiet(s, g) /\ SameWords(s, g)
  BY GateQuiet
<1> HIDE DEF g, t
<1>2. Grown(g, e, t) /\ CardsDrawn(g, e, t)
  BY <1>1, DrawableIs, TextDrawn, CallAskedDrawn, CallAnsweredDrawn, ReportDrawn, FailureDrawn
<1>3. /\ g.cards = s.cards /\ g.card = s.card /\ g.workers = s.workers /\ g.errors = s.errors
      /\ g.texts = s.texts /\ g.thoughts = s.thoughts /\ (Marked(s) => Marked(g))
  BY <1>1, QuietFits DEF Quiet, SameWords
<1>4. Grown(s, e, t)
  BY <1>2, <1>3 DEF Grown
<1>5. CardsDrawn(s, e, t)
  <2>1. CallsAlike(g, t) => CallsAlike(s, t)
    BY <1>3 DEF CallsAlike
  <2>2. CardAdded(g, t, e.key) => CardAdded(s, t, e.key)
    BY <1>3 DEF CardAdded
  <2>3. AnsweredIn(g, t, e.key, Status(e.val)) => AnsweredIn(s, t, e.key, Status(e.val))
    BY <1>3 DEF AnsweredIn, KeysKept, StatusKept
  <2>4. KeysKept(g, t) /\ SettledIn(g, t) => KeysKept(s, t) /\ SettledIn(s, t)
    BY <1>3 DEF KeysKept, SettledIn
  <2> QED BY <1>2, <2>1, <2>2, <2>3, <2>4 DEF CardsDrawn
<1> QED BY <1>4, <1>5 DEF t

\* The end of a turn on the screen.
LEMMA FinalizedFits ==
  ASSUME NEW s, FitsScreen(s), NEW phase
  PROVE  LET t == Finalized(s, phase) IN
         /\ FitsScreen(t) /\ SameWords(s, t) /\ t.workers = s.workers /\ t.errors = s.errors
         /\ KeysKept(s, t)
         /\ phase = "completed" => t.cards = s.cards /\ (Marked(s) => Marked(t))
         /\ phase # "completed" => SettledIn(s, t)
<1> DEFINE a == ActiveSettled(s)
           b == MarkFailed(a, a.run)
           t == Finalized(s, phase)
<1>1. s \in Screens /\ Len(s.cards) \in Nat
  BY DEF FitsScreen, Screens
<1>2. CASE phase = "completed"
  <2>1. t = RunClosed(s)
    BY <1>2 DEF Finalized
  <2> HIDE DEF t
  <2>2. Quiet(s, t) /\ SameWords(s, t)
    BY <2>1, RunClosedQuiet
  <2>3. KeysKept(s, t)
    BY <1>1, <2>2 DEF Quiet, KeysKept
  <2> QED BY <1>2, <2>2, <2>3, QuietFits DEF Quiet, t
<1>3. CASE phase # "completed"
  <2>1. t = RunClosed(b)
    BY <1>3 DEF Finalized
  <2>2. FitsScreen(a) /\ KeysKept(s, a) /\ SettledIn(s, a) /\ SameTold(s, a) /\ SameWords(s, a)
    BY ActiveSettledFits
  <2> HIDE DEF a
  <2>3. Quiet(a, b) /\ SameWords(a, b)
    BY <2>2, MarkFailedQuiet
  <2> HIDE DEF b, t
  <2>4. FitsScreen(b)
    BY <2>2, <2>3, QuietFits
  <2>5. Quiet(b, t) /\ SameWords(b, t)
    BY <2>1, <2>4, RunClosedQuiet
  <2>6. FitsScreen(t)
    BY <2>4, <2>5, QuietFits
  <2>7. t.cards = a.cards /\ t.card = a.card /\ t.workers = s.workers /\ t.errors = s.errors
    BY <2>2, <2>3, <2>5 DEF Quiet, SameTold
  <2>8. SameWords(s, t)
    BY <2>2, <2>3, <2>5 DEF SameWords
  <2>9. KeysKept(s, t) /\ SettledIn(s, t)
    BY <2>2, <2>7 DEF KeysKept, SettledIn
  <2> QED BY <1>3, <2>6, <2>7, <2>8, <2>9 DEF t
<1> QED BY <1>2, <1>3

----------------------------------------------------------------------------
(* The events are drawn again *)

Rehydrations == INSTANCE Folding WITH Op <- Rehydrated

\* The screens on which events are drawn again: no worker has reported, nothing
\* was thought, no call runs.
NoCallRuns(s) == \A c \in CallIds : s.card[c] # 0 => s.cards[s.card[c]].status # "running"
Starts ==
  {s \in Screens : /\ FitsScreen(s) /\ Marked(s) /\ s.thoughts = <<>> /\ s.errors = 0 /\ s.workers = NoReports
                   /\ \A w \in Workers : s.card[w] = 0
                   /\ NoCallRuns(s)}

\* What was drawn again on s0 follows the live screen v in all but text and calls.
Follows(s0, t, v) ==
  /\ FitsScreen(t) /\ Marked(t) /\ CallsAlike(s0, t) /\ Flat(t.texts) = Flat(s0.texts)
  /\ Flat(t.thoughts) = Flat(v.thoughts) /\ t.workers = v.workers /\ t.errors = v.errors
  /\ \A w \in Workers : t.card[w] = 0 <=> v.card[w] = 0

LEMMA SettledAlike ==
  ASSUME NEW s0 \in Starts, NEW t, FitsScreen(t), CallsAlike(s0, t), NEW u, KeysKept(t, u), SettledIn(t, u)
  PROVE  CallsAlike(t, u)
<1>1. Len(t.cards) \in Nat /\ Len(s0.cards) \in Nat
  <2>1. Len(t.cards) \in Nat
    BY DEF FitsScreen, Screens
  <2>2. Len(s0.cards) \in Nat
    BY DEF Starts, Screens
  <2> QED BY <2>1, <2>2
<1>2. ASSUME NEW c \in CallIds, NEW i \in 1..Len(t.cards), t.card[c] = i PROVE t.cards[i].status # "running"
  <2>1. c \in Keys /\ t.card[c] # 0
    BY <1>1, <1>2 DEF Keys
  <2>2. t.cards[i].key = c /\ s0.card[c] = i
    BY <1>2, <2>1 DEF FitsScreen, Registered, CallsAlike
  <2>3. i \in 1..Len(s0.cards) /\ s0.cards[i].key = c
    BY <1>1, <2>1, <2>2 DEF Starts, FitsScreen, Registered
  <2>4. s0.cards[i].status # "running"
    BY <1>1, <2>2 DEF Starts, NoCallRuns
  <2> QED BY <2>3, <2>4 DEF CallsAlike
<1>3. \A i \in 1..Len(t.cards) : u.cards[i].key = t.cards[i].key /\ u.cards[i].status = t.cards[i].status
  <2> SUFFICES ASSUME NEW i \in 1..Len(t.cards) PROVE u.cards[i].status = t.cards[i].status
    BY DEF KeysKept
  <2>1. ~((\E c \in CallIds : t.card[c] = i) /\ t.cards[i].status = "running")
    BY <1>2
  <2> QED BY <2>1, Zenon DEF SettledIn
<1>4. Len(u.cards) = Len(t.cards) /\ u.card = t.card
  BY DEF KeysKept
<1> QED BY <1>1, <1>3, <1>4 DEF CallsAlike

\* One event more, live and again.
LEMMA FollowsStep ==
  ASSUME NEW s0 \in Starts, NEW t, NEW v, FitsScreen(v), Follows(s0, t, v), NEW e \in Drawables
  PROVE  Follows(s0, Rehydrated(t, e), Draw(v, e))
<1> DEFINE u == Draw(v, e)
           r == Rehydrated(t, e)
<1>1. Grown(v, e, u)
  BY DrawGrows
<1>2. FitsScreen(t) /\ t \in Screens /\ s0 \in Screens
  BY DEF Follows, FitsScreen, Starts
<1>3. CASE e.type \in ReplaySkipped
  <2>1. r = t
    BY <1>3 DEF Rehydrated
  <2>2. e.type \in {"text", "request", "result"}
    BY <1>3 DEF ReplaySkipped
  <2> HIDE DEF u, r
  <2>3. Flat(u.thoughts) = Flat(v.thoughts) /\ u.errors = v.errors
    BY <1>1, <2>2 DEF Grown
  <2>4. u.workers = v.workers /\ \A w \in Workers : u.card[w] = 0 <=> v.card[w] = 0
    BY <1>1, <2>2 DEF Grown, DigestStep, ReportOf
  <2>5. Follows(s0, t, u)
    BY <2>3, <2>4 DEF Follows
  <2> QED BY <2>1, <2>5 DEF u, r
<1>4. CASE e.type \notin ReplaySkipped
  <2>1. r = Draw(t, e)
    BY <1>4 DEF Rehydrated
  <2>2. e.type \in {"reasoning", "worker", "final", "error"}
    BY <1>4, DrawableIs DEF ReplaySkipped
  <2>3. Grown(t, e, r) /\ CardsDrawn(t, e, r)
    BY <1>2, <2>1, DrawGrows
  <2> HIDE DEF u, r
  <2>4. CallsAlike(t, r)
    <3>1. CASE e.type = "error"
      BY <1>2, <2>3, <3>1, SettledAlike DEF CardsDrawn, Follows
    <3>2. CASE e.type # "error"
      BY <2>2, <2>3, <3>2 DEF CardsDrawn
    <3> QED BY <3>1, <3>2
  <2>5. CallsAlike(s0, r)
    <3>1. r \in Screens /\ CallsAlike(s0, t)
      BY <2>3 DEF Grown, FitsScreen, Follows
    <3> QED BY <1>2, <2>4, <3>1, CallsGoOnAlike
  <2>6. FitsScreen(r) /\ Marked(r) /\ Flat(r.texts) = Flat(s0.texts)
    BY <2>2, <2>3 DEF Grown, Follows
  <2>7. Flat(r.thoughts) = Flat(u.thoughts) /\ r.errors = u.errors
    BY <1>1, <2>3 DEF Grown, Follows
  <2>8. r.workers = u.workers
    BY <1>1, <2>3 DEF Grown, Follows
  <2>9. \A w \in Workers : r.card[w] = 0 <=> u.card[w] = 0
    BY <1>1, <2>3 DEF Grown, Follows
  <2> QED BY <2>5, <2>6, <2>7, <2>8, <2>9 DEF Follows, u, r
<1> QED BY <1>3, <1>4

\* All the events of the turn.
AgainOf(s0, events) == Rehydrations!Fold(s0, events)
AllFollow(events, v) == \A s0 \in Starts : Follows(s0, AgainOf(s0, events), v)

LEMMA AllFollowStep ==
  ASSUME NEW events \in Seq(Drawables), NEW v, FitsScreen(v), AllFollow(events, v), NEW e \in Drawables
  PROVE  AllFollow(Append(events, e), Draw(v, e))
<1> SUFFICES ASSUME NEW s0 \in Starts PROVE Follows(s0, AgainOf(s0, Append(events, e)), Draw(v, e))
  BY DEF AllFollow
<1>1. AgainOf(s0, Append(events, e)) = Rehydrated(AgainOf(s0, events), e)
  BY Rehydrations!FoldAppend DEF AgainOf
<1>2. Follows(s0, AgainOf(s0, events), v)
  BY DEF AllFollow
<1> QED BY <1>1, <1>2, FollowsStep

LEMMA HydratedFolds ==
  \A s, events : FoldLeft(Rehydrated, s, events) = AgainOf(s, events)
BY DEF AgainOf, FoldLeft, MapThenFoldSet, Max, Rehydrations!Fold, Rehydrations!Unfolded, Rehydrations!Largest

----------------------------------------------------------------------------
(* The messages are drawn and sent *)

Tellings == INSTANCE Folding WITH Op <- MessageDrawn
CardAdds == INSTANCE Folding WITH Op <- AddCard
Sendings == INSTANCE Folding WITH Op <- MessageSent

DrawnOf(ms) == Tellings!Fold(Blank, ms)
AskedOf(s, calls) == CardAdds!Fold(s, calls)
SentOf(ms) == Sendings!Fold(NewClient, ms)

LEMMA ToldFolds == \A ms : FoldLeft(MessageDrawn, Blank, ms) = DrawnOf(ms)
BY DEF DrawnOf, FoldLeft, MapThenFoldSet, Max, Tellings!Fold, Tellings!Unfolded, Tellings!Largest

LEMMA AskedFolds == \A s, calls : FoldLeft(AddCard, s, calls) = AskedOf(s, calls)
BY DEF AskedOf, FoldLeft, MapThenFoldSet, Max, CardAdds!Fold, CardAdds!Unfolded, CardAdds!Largest

LEMMA SentFolds == \A ms : Replayed(ms) = SentOf(ms)
BY DEF Replayed, SentOf, FoldLeft, MapThenFoldSet, Max, Sendings!Fold, Sendings!Unfolded, Sendings!Largest

\* The screens of messages alone: nothing but text and calls.
ToldScreens ==
  {s \in Screens : /\ FitsScreen(s) /\ Marked(s) /\ s.thoughts = <<>> /\ s.errors = 0 /\ s.workers = NoReports
                   /\ s.assistant = 0
                   /\ \A w \in Workers : s.card[w] = 0
                   /\ \A i \in 1..Len(s.cards) : s.cards[i].key \in CallIds}

\* What is kept of a screen that gets text only, and of one that gets a card.
LEMMA ToldQuiet ==
  ASSUME NEW s \in ToldScreens, NEW t, Quiet(s, t), t.thoughts = s.thoughts, t.assistant = 0 PROVE t \in ToldScreens
<1>1. FitsScreen(t) /\ Marked(t)
  BY QuietFits DEF ToldScreens
<1> QED BY <1>1 DEF ToldScreens, Quiet

LEMMA ToldAsks ==
  ASSUME NEW s \in ToldScreens, NEW call \in CallIds
  PROVE  /\ AddCard(s, call) \in ToldScreens /\ CardAdded(s, AddCard(s, call), call)
         /\ AddCard(s, call).texts = s.texts
<1> DEFINE t == AddCard(s, call)
<1>1. call \in Keys /\ FitsScreen(s) /\ s \in Screens
  BY DEF Keys, ToldScreens
<1>2. /\ t \in Screens /\ CardAdded(s, t, call) /\ SameTold(s, t) /\ SameWords(s, t) /\ (Marked(s) => Marked(t))
  BY <1>1, AddCardAdds
<1>3. FitsScreen(t)
  BY <1>1, AddCallFits
<1> HIDE DEF t
<1>4. \A w \in Workers : t.card[w] = 0
  <2> SUFFICES ASSUME NEW w \in Workers PROVE t.card[w] = 0
    OBVIOUS
  <2>1. w # call /\ w \in Keys /\ s.card[w] = 0
    BY TranscriptAssumption DEF Keys, ToldScreens
  <2>2. s.card \in [Keys -> Nat]
    BY <1>1 DEF Screens
  <2> QED BY <1>2, <2>1, <2>2 DEF CardAdded
<1>5. \A i \in 1..Len(t.cards) : t.cards[i].key \in CallIds
  <2> SUFFICES ASSUME NEW i \in 1..Len(t.cards) PROVE t.cards[i].key \in CallIds
    OBVIOUS
  <2>1. Len(s.cards) \in Nat
    BY <1>1 DEF Screens
  <2>2. i = Len(s.cards) + 1 \/ i \in 1..Len(s.cards)
    BY <1>2, <2>1 DEF CardAdded
  <2> QED BY <1>2, <2>2 DEF CardAdded, ToldScreens
<1> QED BY <1>2, <1>3, <1>4, <1>5 DEF ToldScreens, SameTold, SameWords, t

\* The text of a message.
TextShown(s, text) == IF text = <<>> THEN s ELSE [RunClosed(s) EXCEPT !.texts = Append(@, text)]

LEMMA ToldText ==
  ASSUME NEW s \in ToldScreens, NEW text \in Text
  PROVE  LET t == TextShown(s, text) IN
         t \in ToldScreens /\ Quiet(s, t) /\ Flat(t.texts) = Flat(s.texts) \o text
<1> DEFINE r == RunClosed(s)
           t == TextShown(s, text)
           more == Append(s.texts, text)
<1>1. FitsScreen(s) /\ s \in Screens /\ s.thoughts = <<>> /\ s.assistant = 0
  BY DEF ToldScreens
<1>2. s.texts \in Seq(Text) /\ Len(s.texts) \in Nat /\ Len(s.runs) \in Nat
  BY <1>1 DEF Screens
<1>3. Quiet(s, r) /\ SameWords(s, r) /\ r.thought = s.thought
  BY <1>1, RunClosedQuiet
<1> HIDE DEF r
<1>4. CASE text = <<>>
  <2>1. t = s
    BY <1>4 DEF TextShown
  <2>2. Quiet(s, s)
    BY <1>1, <1>2 DEF FitsScreen, Quiet, RunsGrow
  <2>3. Flat(s.texts) \o text = Flat(s.texts)
    BY <1>2, <1>4, FlatTyped DEF Text
  <2> HIDE DEF t
  <2> QED BY <2>1, <2>2, <2>3 DEF t
<1>5. CASE text # <<>>
  <2>1. r \in Screens /\ r.texts = s.texts /\ r.thoughts = s.thoughts /\ r.assistant = 0
    BY <1>1, <1>3 DEF Quiet, SameWords
  <2>2. t = [r EXCEPT !.texts = more]
    <3>1. t = [r EXCEPT !.texts = Append(@, text)]
      BY <1>5 DEF TextShown, r
    <3> QED BY <2>1, <3>1 DEF Screens
  <2>3. more \in Seq(Text)
    BY <1>2
  <2>4. Flat(more) = Flat(s.texts) \o text
    BY <1>2, FlatAppend
  <2> HIDE DEF more, t
  <2>5. t \in Screens /\ t.texts = more
    BY <2>1, <2>2, <2>3 DEF Screens
  <2>6. /\ t.cards = r.cards /\ t.card = r.card /\ t.run = r.run /\ t.runs = r.runs
        /\ t.assistant = 0 /\ t.thoughts = r.thoughts /\ t.thought = r.thought
        /\ t.workers = r.workers /\ t.errors = r.errors /\ t.errorRendered = r.errorRendered
    BY <2>1, <2>2 DEF Screens
  <2>7. Pointing(t)
    BY <1>3, <2>6 DEF Pointing, Quiet
  <2>8. RunsGrow(s, t)
    BY <1>3, <2>6 DEF Quiet, RunsGrow
  <2>9. Quiet(s, t)
    BY <1>3, <2>5, <2>6, <2>7, <2>8 DEF Quiet
  <2>10. t.thoughts = s.thoughts /\ t.assistant = 0
    BY <2>1, <2>6
  <2> QED BY <2>4, <2>5, <2>9, <2>10, ToldQuiet DEF t
<1> QED BY <1>4, <1>5

\* The calls of a message.
LEMMA ToldCalls ==
  ASSUME NEW s \in ToldScreens, NEW calls \in Seq(CallIds)
  PROVE  AskedOf(s, calls) \in ToldScreens /\ AskedOf(s, calls).texts = s.texts
<1> DEFINE T == {t \in ToldScreens : t.texts = s.texts}
<1>1. \A t \in T, call \in CallIds : AddCard(t, call) \in T
  BY ToldAsks
<1>2. Len(calls) \in Nat /\ DOMAIN calls = 1..Len(calls) /\ \A i \in 1..Len(calls) : calls[i] \in CallIds
  OBVIOUS
<1>3. s \in T
  OBVIOUS
<1> HIDE DEF T
<1>4. AskedOf(s, calls) \in T
  BY <1>1, <1>2, <1>3, CardAdds!FoldType DEF AskedOf
<1> QED BY <1>4 DEF T

LEMMA AskedAppend ==
  ASSUME NEW s, NEW calls \in Seq(CallIds), NEW call \in CallIds
  PROVE  AskedOf(s, Append(calls, call)) = AddCard(AskedOf(s, calls), call)
BY CardAdds!FoldAppend DEF AskedOf

LEMMA AiDrawn ==
  ASSUME NEW s, NEW text, NEW calls
  PROVE  MessageDrawn(s, Ai(text, calls)) = AskedOf(TextShown(s, text), calls)
<1>1. Ai(text, calls).kind = "ai" /\ Ai(text, calls).text = text /\ Ai(text, calls).calls = calls
  BY DEF Ai
<1>2. MessageDrawn(s, Ai(text, calls)) = FoldLeft(AddCard, TextShown(s, text), calls)
  BY <1>1, Zenon DEF MessageDrawn, TextShown
<1> QED BY <1>2, AskedFolds

\* A result.
LEMMA ResultDrawn ==
  ASSUME NEW s \in ToldScreens, NEW call \in CallIds, NEW status \in {"success", "error", "rejected"}
  PROVE  LET t == CardAnswered(s, call, status) IN
         t \in ToldScreens /\ t.texts = s.texts /\ AnsweredIn(s, t, call, status)
<1> DEFINE t == CardAnswered(s, call, status)
<1>1. FitsScreen(s) /\ Marked(s)
  BY DEF ToldScreens
<1>2. /\ FitsScreen(t) /\ Marked(t)
      /\ KeysKept(s, t) /\ SameTold(s, t) /\ SameWords(s, t)
      /\ \A i \in 1..Len(s.cards) : i # s.card[call] => StatusKept(s, t, i)
      /\ (s.card[call] # 0 /\ s.cards[s.card[call]].status = "running") =>
            t.cards[s.card[call]].status = status
  BY <1>1, CardAnsweredFits
<1> HIDE DEF t
<1>3. AnsweredIn(s, t, call, status)
  BY <1>2 DEF AnsweredIn
<1>4. t \in Screens
  BY <1>2 DEF FitsScreen
<1>5. t.thoughts = <<>> /\ t.errors = 0 /\ t.workers = NoReports /\ t.assistant = 0 /\ t.texts = s.texts
  BY <1>2 DEF ToldScreens, SameTold, SameWords
<1>6. \A w \in Workers : t.card[w] = 0
  BY <1>2 DEF ToldScreens, KeysKept
<1>7. \A i \in 1..Len(t.cards) : t.cards[i].key \in CallIds
  BY <1>2 DEF ToldScreens, KeysKept
<1> QED BY <1>2, <1>3, <1>4, <1>5, <1>6, <1>7 DEF ToldScreens, t

LEMMA ToolDrawn ==
  ASSUME NEW s, NEW call, NEW outcome
  PROVE  MessageDrawn(s, ToolMessage(call, outcome)) = CardAnswered(s, call, Status(outcome))
BY DEF MessageDrawn, ToolMessage, Status, Failing

\* A message, and what it says.
TextOfMessage(m) == IF m.kind = "ai" THEN m.text ELSE <<>>

LEMMA MessageTells ==
  ASSUME NEW s \in ToldScreens, NEW m \in TurnMessages
  PROVE  /\ MessageDrawn(s, m) \in ToldScreens
         /\ Flat(MessageDrawn(s, m).texts) = Flat(s.texts) \o TextOfMessage(m)
<1>0. s.texts \in Seq(Text)
  BY DEF ToldScreens, Screens
<1>1. CASE m.kind = "ai"
  <2>1. m.text \in Text /\ m.calls \in Seq(CallIds) /\ m = Ai(m.text, m.calls)
    BY <1>1 DEF TurnMessages, Ai
  <2> DEFINE t == TextShown(s, m.text)
  <2>2. MessageDrawn(s, m) = AskedOf(t, m.calls)
    BY <2>1, AiDrawn
  <2>3. t \in ToldScreens /\ Flat(t.texts) = Flat(s.texts) \o m.text
    BY <2>1, ToldText
  <2> HIDE DEF t
  <2>4. AskedOf(t, m.calls) \in ToldScreens /\ AskedOf(t, m.calls).texts = t.texts
    BY <2>1, <2>3, ToldCalls
  <2> QED BY <1>1, <2>2, <2>3, <2>4 DEF TextOfMessage
<1>2. CASE m.kind # "ai"
  <2>1. m.kind = "tool" /\ m.call \in CallIds
    BY <1>2 DEF TurnMessages
  <2> DEFINE status == IF m.rejected THEN "rejected" ELSE IF m.failed THEN "error" ELSE "success"
             t == CardAnswered(s, m.call, status)
  <2>2. MessageDrawn(s, m) = t
    BY <2>1 DEF MessageDrawn
  <2>3. status \in {"success", "error", "rejected"}
    OBVIOUS
  <2> HIDE DEF status
  <2>4. t \in ToldScreens /\ t.texts = s.texts
    BY <2>1, <2>3, ResultDrawn
  <2> HIDE DEF t
  <2>5. Flat(s.texts) \o <<>> = Flat(s.texts)
    BY <1>0, FlatTyped DEF Text
  <2> QED BY <1>2, <2>2, <2>4, <2>5 DEF TextOfMessage
<1> QED BY <1>1, <1>2

LEMMA BlankTold == Blank \in ToldScreens /\ Flat(Blank.texts) = <<>>
<1>1. /\ Blank.gate = FreshState /\ Blank.cards = <<>> /\ Blank.card = [k \in Keys |-> 0] /\ Blank.runs = <<>>
      /\ Blank.run = 0 /\ Blank.texts = <<>> /\ Blank.assistant = 0 /\ Blank.thoughts = <<>> /\ Blank.thought = 0
      /\ Blank.workers = NoReports /\ Blank.errors = 0 /\ Blank.errorRendered = FALSE
  BY DEF Blank, NoReports
<1>2. Blank \in Screens
  <2>1. FreshState \in [turn : Nat \cup {NoTurn}, attempt : {NoAttempt}, last : {NoSequence}]
    BY DEF FreshState
  <2>2. NoReports \in [Workers -> Statuses]
    BY DEF NoReports, Statuses
  <2>3. /\ <<>> \in Seq(DrawnCards) /\ <<>> \in Seq(BOOLEAN) /\ <<>> \in Seq(Text)
        /\ [k \in Keys |-> 0] \in [Keys -> Nat]
    OBVIOUS
  <2> QED BY <2>1, <2>2, <2>3 DEF Blank, Screens, NoReports
<1>3. Pointing(Blank) /\ Rooted(Blank)
  BY <1>1 DEF Pointing, Rooted
<1>4. Registered(Blank)
  BY <1>1 DEF Registered
<1>5. \A w \in Workers : w \in Keys /\ Blank.card[w] = 0 /\ Blank.workers[w] = "none"
  BY <1>1 DEF Keys, NoReports
<1>6. WorkersShown(Blank)
  BY <1>5 DEF WorkersShown
<1>7. Marked(Blank)
  BY <1>1 DEF Marked, MarkedCards
<1>8. FitsScreen(Blank)
  BY <1>1, <1>2, <1>3, <1>4, <1>6 DEF FitsScreen
<1>9. Flat(<<>>) = <<>>
  <2>1. DOMAIN <<>> = {}
    OBVIOUS
  <2>2. Joins!Fold(<<>>, <<>>) = <<>>
    BY <2>1, Joins!FoldEmpty
  <2> QED BY <2>2, FlatFolds
<1>10. \A i \in 1..Len(Blank.cards) : Blank.cards[i].key \in CallIds
  BY <1>1
<1> QED BY <1>1, <1>2, <1>5, <1>7, <1>8, <1>9, <1>10 DEF ToldScreens

\* What a client is sent.
ClientCards == {"none", "in_progress"} \cup Statuses \cup {"completed"}
Clients == [text : Text, card : [Keys -> ClientCards]]

LEMMA MessageSends ==
  ASSUME NEW c \in Clients, NEW m \in TurnMessages
  PROVE  MessageSent(c, m) \in Clients /\ MessageSent(c, m).text = c.text \o TextOfMessage(m)
<1>1. c = [text |-> c.text, card |-> c.card] /\ c.text \in Text /\ c.card \in [Keys -> ClientCards]
  BY DEF Clients
<1>2. {"failed", "completed"} \subseteq ClientCards
  BY DEF ClientCards, Statuses
<1>3. CASE m.kind = "ai"
  <2>1. m.text \in Text
    BY <1>3 DEF TurnMessages
  <2> DEFINE card == [k \in Keys |-> IF Contains(m.calls, k) THEN "completed" ELSE c.card[k]]
  <2>2. MessageSent(c, m) = [text |-> c.text \o m.text, card |-> card]
    BY <1>3 DEF MessageSent
  <2>3. card \in [Keys -> ClientCards]
    BY <1>1, <1>2
  <2>4. c.text \o m.text \in Text
    BY <1>1, <2>1 DEF Text
  <2> HIDE DEF card
  <2> QED BY <1>3, <2>2, <2>3, <2>4 DEF Clients, TextOfMessage
<1>4. CASE m.kind # "ai"
  <2>1. m.kind = "tool" /\ m.call \in Keys
    BY <1>4 DEF TurnMessages, Keys
  <2> DEFINE card == [c.card EXCEPT ![m.call] = IF m.failed THEN "failed" ELSE "completed"]
  <2>2. MessageSent(c, m) = [text |-> c.text, card |-> card]
    BY <1>1, <2>1 DEF MessageSent
  <2>3. card \in [Keys -> ClientCards]
    BY <1>1, <1>2
  <2>4. c.text \o <<>> = c.text
    BY <1>1 DEF Text
  <2> HIDE DEF card
  <2>5. MessageSent(c, m) \in Clients
    BY <1>1, <2>2, <2>3 DEF Clients
  <2>6. MessageSent(c, m).text = c.text
    BY <2>2
  <2>7. TextOfMessage(m) = <<>>
    BY <1>4 DEF TextOfMessage
  <2> QED BY <2>4, <2>5, <2>6, <2>7
<1> QED BY <1>3, <1>4

\* One message more.
LEMMA TellMore ==
  ASSUME NEW ms \in Seq(TurnMessages), NEW m \in TurnMessages
  PROVE  /\ DrawnOf(Append(ms, m)) = MessageDrawn(DrawnOf(ms), m)
         /\ SentOf(Append(ms, m)) = MessageSent(SentOf(ms), m)
BY Tellings!FoldAppend, Sendings!FoldAppend DEF DrawnOf, SentOf

LEMMA NothingTold == DrawnOf(<<>>) = Blank /\ SentOf(<<>>) = NewClient /\ Flat(AiTexts(<<>>)) = <<>>
<1>1. DOMAIN <<>> = {} /\ DOMAIN AiTexts(<<>>) = {}
  BY DEF AiTexts
<1>2. Tellings!Fold(Blank, <<>>) = Blank
  BY <1>1, Tellings!FoldEmpty
<1>3. Sendings!Fold(NewClient, <<>>) = NewClient
  BY <1>1, Sendings!FoldEmpty
<1>4. Joins!Fold(<<>>, AiTexts(<<>>)) = <<>>
  BY <1>1, Joins!FoldEmpty
<1> QED BY <1>2, <1>3, <1>4, FlatFolds DEF DrawnOf, SentOf

\* The messages of any turn.
LEMMA AllTold ==
  ASSUME NEW all \in Seq(TurnMessages)
  PROVE  /\ DrawnOf(all) \in ToldScreens /\ Flat(DrawnOf(all).texts) = Flat(AiTexts(all))
         /\ SentOf(all) \in Clients /\ SentOf(all).text = Flat(AiTexts(all))
<1> DEFINE Tells(ms) == /\ DrawnOf(ms) \in ToldScreens /\ Flat(DrawnOf(ms).texts) = Flat(AiTexts(ms))
                        /\ SentOf(ms) \in Clients /\ SentOf(ms).text = Flat(AiTexts(ms))
           P == {k \in Nat : \A ms \in Seq(TurnMessages) : Len(ms) = k => Tells(ms)}
<1>1. 0 \in P
  <2> SUFFICES ASSUME NEW ms \in Seq(TurnMessages), Len(ms) = 0 PROVE Tells(ms)
    OBVIOUS
  <2>1. ms = <<>>
    OBVIOUS
  <2>2. NewClient \in Clients /\ NewClient.text = <<>>
    BY DEF NewClient, Clients, Text, ClientCards
  <2> QED BY <2>1, <2>2, NothingTold, BlankTold
<1>2. ASSUME NEW k \in Nat, k \in P PROVE k + 1 \in P
  <2> SUFFICES ASSUME NEW ms \in Seq(TurnMessages), Len(ms) = k + 1 PROVE Tells(ms)
    OBVIOUS
  <2> DEFINE fs == SubSeq(ms, 1, k)
             m == ms[k + 1]
  <2>1. fs \in Seq(TurnMessages) /\ Len(fs) = k /\ m \in TurnMessages /\ ms = Append(fs, m)
    OBVIOUS
  <2>2. Tells(fs)
    BY <1>2, <2>1
  <2> HIDE DEF fs, m, P
  <2>3. DrawnOf(ms) = MessageDrawn(DrawnOf(fs), m) /\ SentOf(ms) = MessageSent(SentOf(fs), m)
    BY <2>1, TellMore
  <2>4. Flat(AiTexts(ms)) = Flat(AiTexts(fs)) \o TextOfMessage(m)
    BY <2>1, FlatOfAppend DEF TextOfMessage
  <2>5. DrawnOf(ms) \in ToldScreens /\ Flat(DrawnOf(ms).texts) = Flat(AiTexts(ms))
    BY <2>1, <2>2, <2>3, <2>4, MessageTells
  <2>6. SentOf(ms) \in Clients /\ SentOf(ms).text = Flat(AiTexts(ms))
    BY <2>1, <2>2, <2>3, <2>4, MessageSends
  <2> QED BY <2>5, <2>6
<1> HIDE DEF P
<1>3. Len(all) \in P
  <2>1. Len(all) \in Nat
    OBVIOUS
  <2> QED BY <1>1, <1>2, <2>1, Keeps!NatSet
<1> QED BY <1>3 DEF P

----------------------------------------------------------------------------
(* The cards of calls, told and live *)

\* A card that was told shows what the live one shows; a call whose result was
\* never streamed is told to have failed.
TellsStatus(told, live) == told = live \/ (live = "running" /\ told = "error")

\* P gives a told card its live one: all cards of calls, in order.  Of the open
\* calls both are registered and run.
Matched(P, M, V) ==
  /\ P \in [1..Len(M.cards) -> 1..Len(V.cards)]
  /\ \A i, j \in 1..Len(M.cards) : i < j => P[i] < P[j]
  /\ \A j \in 1..Len(V.cards) : V.cards[j].key \in CallIds => \E i \in 1..Len(M.cards) : P[i] = j
  /\ \A i \in 1..Len(M.cards) :
        /\ M.cards[i].key \in CallIds /\ V.cards[P[i]].key = M.cards[i].key
        /\ TellsStatus(M.cards[i].status, V.cards[P[i]].status)
OpenMatched(P, M, open, V) ==
  /\ \A c \in open : M.card[c] \in 1..Len(M.cards) /\ V.card[c] = P[M.card[c]] /\ M.cards[M.card[c]].status = "running"
  /\ \A i \in 1..Len(M.cards) :
        M.cards[i].status = "running" => M.cards[i].key \in open /\ M.card[M.cards[i].key] = i
Corr(P, M, open, V) == Matched(P, M, V) /\ OpenMatched(P, M, open, V)
Corresponds(M, open, V) == \E P : Corr(P, M, open, V)

\* The live screen changes beside its calls.
LEMMA CorrAlike ==
  ASSUME NEW P, NEW M, NEW open, open \subseteq CallIds, NEW V \in Screens, NEW W \in Screens, Corr(P, M, open, V), CallsAlike(V, W)
  PROVE  Corr(P, M, open, W)
<1>1. Len(V.cards) \in Nat
  BY DEF Screens
<1>2. Len(W.cards) \in Nat
  BY DEF Screens
<1>3. Len(V.cards) <= Len(W.cards) /\ 1..Len(V.cards) \subseteq 1..Len(W.cards)
  BY <1>1, <1>2 DEF CallsAlike
<1>4. P \in [1..Len(M.cards) -> 1..Len(V.cards)]
  BY DEF Corr, Matched
<1>5. P \in [1..Len(M.cards) -> 1..Len(W.cards)]
  BY <1>3, <1>4
<1>6. ASSUME NEW j \in 1..Len(W.cards), W.cards[j].key \in CallIds PROVE \E i \in 1..Len(M.cards) : P[i] = j
  <2>1. j \in 1..Len(V.cards)
    BY <1>1, <1>2, <1>6 DEF CallsAlike
  <2>2. V.cards[j].key \in CallIds
    BY <1>6, <2>1 DEF CallsAlike
  <2> QED BY <2>1, <2>2 DEF Corr, Matched
<1>7. ASSUME NEW i \in 1..Len(M.cards)
      PROVE  W.cards[P[i]].key = M.cards[i].key /\ TellsStatus(M.cards[i].status, W.cards[P[i]].status)
  <2>1. P[i] \in 1..Len(V.cards)
    BY <1>4
  <2>2. V.cards[P[i]].key = M.cards[i].key /\ M.cards[i].key \in CallIds /\ TellsStatus(M.cards[i].status, V.cards[P[i]].status)
    BY DEF Corr, Matched
  <2> QED BY <2>1, <2>2 DEF CallsAlike
<1>8. Matched(P, M, W)
  BY <1>5, <1>6, <1>7 DEF Corr, Matched
<1>9. OpenMatched(P, M, open, W)
  BY DEF Corr, OpenMatched, CallsAlike
<1> QED BY <1>8, <1>9 DEF Corr

\* The told screen gets text.
LEMMA CorrQuiet ==
  ASSUME NEW P, NEW M, NEW open, NEW V, Corr(P, M, open, V), NEW N, N.cards = M.cards, N.card = M.card
  PROVE  Corr(P, N, open, V)
BY DEF Corr, Matched, OpenMatched

\* A call is asked for.
LEMMA CorrAsk ==
  ASSUME NEW M, FitsScreen(M), NEW N, NEW V, FitsScreen(V), NEW W, NEW open, open \subseteq CallIds,
         NEW c \in CallIds, c \notin open,
         Corresponds(M, open, V), CardAdded(M, N, c), CardAdded(V, W, c)
  PROVE  Corresponds(N, open \cup {c}, W)
<1>1. PICK P : Corr(P, M, open, V)
  BY DEF Corresponds
<1> DEFINE m == Len(M.cards)
           v == Len(V.cards)
           Q == [i \in 1..(m + 1) |-> IF i = m + 1 THEN v + 1 ELSE P[i]]
<1>2. m \in Nat
  BY DEF FitsScreen, Screens
<1>3. v \in Nat
  BY DEF FitsScreen, Screens
<1>4. /\ Len(N.cards) = m + 1 /\ N.cards[m + 1].key = c /\ N.cards[m + 1].status = "running"
      /\ \A i \in 1..m : N.cards[i] = M.cards[i]
  BY DEF CardAdded
<1>5. /\ Len(W.cards) = v + 1 /\ W.cards[v + 1].key = c /\ W.cards[v + 1].status = "running"
      /\ \A i \in 1..v : W.cards[i] = V.cards[i]
  BY DEF CardAdded
<1>6. c \in Keys /\ M.card \in [Keys -> Nat]
  BY DEF Keys, FitsScreen, Screens
<1>7. V.card \in [Keys -> Nat]
  BY DEF FitsScreen, Screens
<1>8. N.card[c] = m + 1 /\ \A k \in CallIds : k # c => N.card[k] = M.card[k]
  BY <1>6 DEF CardAdded, Keys
<1>9. W.card[c] = v + 1 /\ \A k \in CallIds : k # c => W.card[k] = V.card[k]
  BY <1>6, <1>7 DEF CardAdded, Keys
<1>10. P \in [1..m -> 1..v]
  BY <1>1 DEF Corr, Matched
<1> HIDE DEF m, v
<1>11. \A i \in 1..m : i \in 1..(m + 1) /\ i # m + 1 /\ P[i] \in 1..v /\ P[i] < v + 1 /\ P[i] \in 1..(v + 1)
  BY <1>2, <1>3, <1>10
<1>12. \A i \in 1..(m + 1) : i = m + 1 \/ i \in 1..m
  BY <1>2
<1>13. m + 1 \in 1..(m + 1) /\ v + 1 \in 1..(v + 1) /\ \A j \in 1..(v + 1) : j = v + 1 \/ j \in 1..v
  BY <1>2, <1>3
<1>14. Q \in [1..(m + 1) -> 1..(v + 1)] /\ Q[m + 1] = v + 1 /\ \A i \in 1..m : Q[i] = P[i]
  BY <1>11, <1>12, <1>13
<1> HIDE DEF Q
<1>15. \A i, j \in 1..(m + 1) : i < j => Q[i] < Q[j]
  <2> SUFFICES ASSUME NEW i \in 1..(m + 1), NEW j \in 1..(m + 1), i < j PROVE Q[i] < Q[j]
    OBVIOUS
  <2>1. i \in 1..m
    BY <1>2
  <2>2. CASE j = m + 1
    BY <1>11, <1>14, <2>1, <2>2
  <2>3. CASE j \in 1..m
    BY <1>1, <1>14, <2>1, <2>3 DEF Corr, Matched, m
  <2> QED BY <1>12, <2>2, <2>3
<1>16. \A j \in 1..(v + 1) : W.cards[j].key \in CallIds => \E i \in 1..(m + 1) : Q[i] = j
  <2> SUFFICES ASSUME NEW j \in 1..v, V.cards[j].key \in CallIds PROVE \E i \in 1..(m + 1) : Q[i] = j
    BY <1>5, <1>13, <1>14
  <2>1. PICK i \in 1..m : P[i] = j
    BY <1>1 DEF Corr, Matched, m, v
  <2> QED BY <1>11, <1>14, <2>1
<1>17. ASSUME NEW i \in 1..(m + 1)
       PROVE  /\ N.cards[i].key \in CallIds /\ W.cards[Q[i]].key = N.cards[i].key
              /\ TellsStatus(N.cards[i].status, W.cards[Q[i]].status)
  <2>1. CASE i = m + 1
    BY <1>4, <1>5, <1>14, <2>1 DEF TellsStatus
  <2>2. CASE i \in 1..m
    <3>1. /\ M.cards[i].key \in CallIds /\ V.cards[P[i]].key = M.cards[i].key
          /\ TellsStatus(M.cards[i].status, V.cards[P[i]].status)
      BY <1>1, <2>2 DEF Corr, Matched, m
    <3> QED BY <1>4, <1>5, <1>11, <1>14, <2>2, <3>1
  <2> QED BY <1>12, <2>1, <2>2
<1>18. Matched(Q, N, W)
  BY <1>4, <1>5, <1>14, <1>15, <1>16, <1>17 DEF Matched
<1>19. ASSUME NEW k \in open \cup {c}
       PROVE  N.card[k] \in 1..(m + 1) /\ W.card[k] = Q[N.card[k]] /\ N.cards[N.card[k]].status = "running"
  <2>1. CASE k = c
    BY <1>4, <1>8, <1>9, <1>13, <1>14, <2>1
  <2>2. CASE k # c
    <3>1. k \in open /\ k \in CallIds /\ N.card[k] = M.card[k] /\ W.card[k] = V.card[k]
      BY <1>8, <1>9, <2>2
    <3>2. M.card[k] \in 1..m /\ V.card[k] = P[M.card[k]] /\ M.cards[M.card[k]].status = "running"
      BY <1>1, <3>1 DEF Corr, OpenMatched, m
    <3> QED BY <1>4, <1>11, <1>14, <3>1, <3>2
  <2> QED BY <2>1, <2>2
<1>20. ASSUME NEW i \in 1..(m + 1), N.cards[i].status = "running"
       PROVE  N.cards[i].key \in open \cup {c} /\ N.card[N.cards[i].key] = i
  <2>1. CASE i = m + 1
    BY <1>4, <1>8, <2>1
  <2>2. CASE i \in 1..m
    <3>1. M.cards[i].key \in open /\ M.card[M.cards[i].key] = i /\ N.cards[i] = M.cards[i]
      BY <1>1, <1>4, <1>20, <2>2 DEF Corr, OpenMatched, m
    <3> QED BY <1>8, <3>1
  <2> QED BY <1>12, <2>1, <2>2
<1>21. OpenMatched(Q, N, open \cup {c}, W)
  BY <1>4, <1>19, <1>20 DEF OpenMatched
<1> QED BY <1>18, <1>21 DEF Corr, Corresponds

\* An open call is answered on both, or is told to have failed.
LEMMA CorrAnswer ==
  ASSUME NEW M, FitsScreen(M), NEW N, NEW V, FitsScreen(V), NEW W, NEW open, open \subseteq CallIds,
         NEW c \in open, NEW status, status # "running",
         Corresponds(M, open, V), AnsweredIn(M, N, c, status),
         AnsweredIn(V, W, c, status) \/ (W = V /\ status = "error")
  PROVE  Corresponds(N, open \ {c}, W)
<1>1. PICK P : Corr(P, M, open, V)
  BY DEF Corresponds
<1> DEFINE m == Len(M.cards)
           v == Len(V.cards)
           a == M.card[c]
<1>2. m \in Nat
  BY DEF FitsScreen, Screens
<1>3. v \in Nat
  BY DEF FitsScreen, Screens
<1>4. a \in 1..m /\ V.card[c] = P[a] /\ M.cards[a].status = "running"
  BY <1>1 DEF Corr, OpenMatched
<1>5. P \in [1..m -> 1..v]
  BY <1>1 DEF Corr, Matched
<1>6. V.cards[P[a]].status = "running" /\ M.cards[a].key = c
  <2>1. TellsStatus(M.cards[a].status, V.cards[P[a]].status)
    BY <1>1, <1>4 DEF Corr, Matched
  <2>2. M.cards[a].key = c
    <3>1. c \in Keys /\ a # 0
      BY <1>2, <1>4 DEF Keys
    <3> QED BY <3>1 DEF FitsScreen, Registered
  <2> QED BY <1>4, <2>1, <2>2 DEF TellsStatus
<1>7. /\ Len(N.cards) = m /\ N.card = M.card /\ N.cards[a].status = status
      /\ \A i \in 1..m : N.cards[i].key = M.cards[i].key
      /\ \A i \in 1..m : i # a => N.cards[i].status = M.cards[i].status
  <2>1. a # 0
    BY <1>2, <1>4
  <2> QED BY <1>4, <2>1 DEF AnsweredIn, KeysKept, StatusKept
<1> HIDE DEF a
<1>8. /\ Len(W.cards) = v /\ W.card = V.card
      /\ \A j \in 1..v : W.cards[j].key = V.cards[j].key
      /\ \A j \in 1..v : j # P[a] => W.cards[j].status = V.cards[j].status
      /\ TellsStatus(status, W.cards[P[a]].status)
  <2>1. CASE AnsweredIn(V, W, c, status)
    <3>1. P[a] # 0
      BY <1>3, <1>4, <1>5
    <3>2. W.cards[P[a]].status = status
      BY <1>4, <1>6, <2>1, <3>1 DEF AnsweredIn
    <3> QED BY <1>4, <2>1, <3>2 DEF AnsweredIn, KeysKept, StatusKept, TellsStatus
  <2>2. CASE W = V /\ status = "error"
    BY <1>6, <2>2 DEF TellsStatus
  <2> QED BY <2>1, <2>2
<1> HIDE DEF m, v
<1>9. \A i \in 1..m : P[i] \in 1..v /\ (P[i] = P[a] => i = a)
  <2> SUFFICES ASSUME NEW i \in 1..m PROVE P[i] \in 1..v /\ (P[i] = P[a] => i = a)
    OBVIOUS
  <2>1. P[i] \in 1..v /\ P[a] \in 1..v
    BY <1>4, <1>5
  <2>2. (i < a => P[i] < P[a]) /\ (a < i => P[a] < P[i])
    BY <1>1, <1>4 DEF Corr, Matched, m
  <2> QED BY <1>2, <1>3, <1>4, <2>1, <2>2
<1>10. ASSUME NEW i \in 1..m
       PROVE  /\ N.cards[i].key \in CallIds /\ W.cards[P[i]].key = N.cards[i].key
              /\ TellsStatus(N.cards[i].status, W.cards[P[i]].status)
  <2>1. /\ M.cards[i].key \in CallIds /\ V.cards[P[i]].key = M.cards[i].key
        /\ TellsStatus(M.cards[i].status, V.cards[P[i]].status)
    BY <1>1 DEF Corr, Matched, m
  <2>2. N.cards[i].key \in CallIds /\ W.cards[P[i]].key = N.cards[i].key
    BY <1>7, <1>8, <1>9, <2>1
  <2>3. CASE i = a
    BY <1>7, <1>8, <2>2, <2>3
  <2>4. CASE i # a
    BY <1>7, <1>8, <1>9, <2>1, <2>2, <2>4
  <2> QED BY <2>3, <2>4
<1>11. Matched(P, N, W)
  <2>1. /\ \A i, j \in 1..m : i < j => P[i] < P[j]
        /\ \A j \in 1..v : V.cards[j].key \in CallIds => \E i \in 1..m : P[i] = j
    BY <1>1 DEF Corr, Matched, m, v
  <2>2. \A j \in 1..v : W.cards[j].key \in CallIds => \E i \in 1..m : P[i] = j
    BY <1>8, <2>1
  <2> QED BY <1>5, <1>7, <1>8, <1>10, <2>1, <2>2 DEF Matched
<1>12. ASSUME NEW k \in open \ {c}
       PROVE  N.card[k] \in 1..m /\ W.card[k] = P[N.card[k]] /\ N.cards[N.card[k]].status = "running"
  <2>1. M.card[k] \in 1..m /\ V.card[k] = P[M.card[k]] /\ M.cards[M.card[k]].status = "running"
    BY <1>1 DEF Corr, OpenMatched, m
  <2>2. M.card[k] # a
    <3>1. k \in Keys /\ k # c /\ M.card[k] # 0
      BY <1>2, <2>1 DEF Keys
    <3>2. M.cards[M.card[k]].key = k
      BY <3>1 DEF FitsScreen, Registered
    <3> QED BY <1>6, <3>1, <3>2
  <2> QED BY <1>7, <1>8, <2>1, <2>2
<1>13. ASSUME NEW i \in 1..m, N.cards[i].status = "running"
       PROVE  N.cards[i].key \in open \ {c} /\ N.card[N.cards[i].key] = i
  <2>1. i # a
    BY <1>7, <1>13
  <2>2. M.cards[i].key \in open /\ M.card[M.cards[i].key] = i
    BY <1>1, <1>7, <1>13, <2>1 DEF Corr, OpenMatched, m
  <2>3. M.cards[i].key # c
    BY <2>1, <2>2 DEF a
  <2> QED BY <1>7, <2>2, <2>3
<1>14. OpenMatched(P, N, open \ {c}, W)
  BY <1>7, <1>12, <1>13 DEF OpenMatched
<1> QED BY <1>11, <1>14 DEF Corr, Corresponds

\* The calls that still run live are settled: none is open.
LEMMA CorrSettled ==
  ASSUME NEW M, NEW V, NEW W, Corresponds(M, {}, V), KeysKept(V, W), SettledIn(V, W)
  PROVE  Corresponds(M, {}, W)
<1>1. PICK P : Corr(P, M, {}, V)
  BY DEF Corresponds
<1>2. P \in [1..Len(M.cards) -> 1..Len(V.cards)]
  BY <1>1 DEF Corr, Matched
<1>3. Len(W.cards) = Len(V.cards) /\ \A j \in 1..Len(V.cards) : W.cards[j].key = V.cards[j].key
  BY DEF KeysKept
<1>4. ASSUME NEW i \in 1..Len(M.cards)
      PROVE  /\ M.cards[i].key \in CallIds /\ W.cards[P[i]].key = M.cards[i].key
             /\ TellsStatus(M.cards[i].status, W.cards[P[i]].status)
  <2>1. P[i] \in 1..Len(V.cards)
    BY <1>2
  <2>2. /\ M.cards[i].key \in CallIds /\ V.cards[P[i]].key = M.cards[i].key
        /\ TellsStatus(M.cards[i].status, V.cards[P[i]].status)
    BY <1>1 DEF Corr, Matched
  <2>3. M.cards[i].status # "running"
    BY <1>1 DEF Corr, OpenMatched
  <2>4. W.cards[P[i]].status \in {V.cards[P[i]].status, "error"} /\ (W.cards[P[i]].status # V.cards[P[i]].status => V.cards[P[i]].status = "running")
    BY <2>1, Zenon DEF SettledIn
  <2>5. TellsStatus(M.cards[i].status, W.cards[P[i]].status)
    BY <2>2, <2>3, <2>4 DEF TellsStatus
  <2> QED BY <1>3, <2>1, <2>2, <2>5
<1>5. Matched(P, M, W)
  <2>1. /\ \A i, j \in 1..Len(M.cards) : i < j => P[i] < P[j]
        /\ \A j \in 1..Len(V.cards) : V.cards[j].key \in CallIds => \E i \in 1..Len(M.cards) : P[i] = j
    BY <1>1 DEF Corr, Matched
  <2> QED BY <1>2, <1>3, <1>4, <2>1 DEF Matched
<1>6. OpenMatched(P, M, {}, W)
  BY <1>1 DEF Corr, OpenMatched
<1> QED BY <1>5, <1>6 DEF Corr, Corresponds

\* What the client keeps of the calls: the open ones are in progress, and what has
\* ended is sent again as it ended.
ClientAgrees(x, open, cl) ==
  \A c \in CallIds :
     /\ c \in open => cl.card[c] = "in_progress"
     /\ cl.card[c] \in {"failed", "completed"} => x.card[c] = cl.card[c]

\* Which cards of a screen are cards of calls.
OfCalls == INSTANCE Folding WITH Op <- OfCall

LEMMA CallCardsFold == \A s : CallCards(s) = OfCalls!Fold(<<>>, s.cards)
BY DEF CallCards, FoldLeft, MapThenFoldSet, Max, OfCalls!Fold, OfCalls!Unfolded, OfCalls!Largest

\* P gives the places of them.
CallPlaces(P, m, s) ==
  /\ P \in [1..m -> 1..Len(s.cards)]
  /\ \A i, j \in 1..m : i < j => P[i] < P[j]
  /\ \A j \in 1..Len(s.cards) : s.cards[j].key \in CallIds <=> \E i \in 1..m : P[i] = j

\* The cards at the first places.
Chosen(P, m, s, k, q) ==
  \E l \in 0..m : (\A i \in 1..m : P[i] <= k <=> i <= l) /\ q = [i \in 1..l |-> s.cards[P[i]]]

LEMMA CallCardsAre ==
  ASSUME NEW s \in Screens, NEW m \in Nat, NEW P, CallPlaces(P, m, s)
  PROVE  CallCards(s) = [i \in 1..m |-> s.cards[P[i]]]
<1> DEFINE n == Len(s.cards)
           all == [i \in 1..m |-> s.cards[P[i]]]
           T == [k \in 0..n |-> {q \in Seq(DrawnCards) : Chosen(P, m, s, k, q)}]
<1>1. s.cards \in Seq(DrawnCards) /\ n \in Nat /\ DOMAIN s.cards = 1..n
  BY DEF Screens
<1>2. P \in [1..m -> 1..n] /\ \A i \in 1..m : P[i] \in 1..n /\ P[i] \in Nat
  BY <1>1 DEF CallPlaces
<1>3. \A q : q \in T[0] <=> q \in Seq(DrawnCards) /\ Chosen(P, m, s, 0, q)
  BY <1>1
<1>4. \A k \in 0..n : \A q : q \in T[k] <=> q \in Seq(DrawnCards) /\ Chosen(P, m, s, k, q)
  OBVIOUS
<1> HIDE DEF T, n
<1>5. <<>> \in T[0]
  <2> DEFINE none == [i \in 1..0 |-> s.cards[P[i]]]
  <2>1. <<>> = none
    OBVIOUS
  <2>2. 0 \in 0..m /\ \A i \in 1..m : P[i] <= 0 <=> i <= 0
    BY <1>1, <1>2
  <2> HIDE DEF none
  <2>3. Chosen(P, m, s, 0, none)
    BY <2>2 DEF Chosen, none
  <2>4. <<>> \in Seq(DrawnCards)
    OBVIOUS
  <2> QED BY <1>3, <2>1, <2>3, <2>4
<1>6. ASSUME NEW k \in 0..(n - 1), NEW q \in T[k] PROVE OfCall(q, s.cards[k + 1]) \in T[k + 1]
  <2> DEFINE card == s.cards[k + 1]
  <2>1. k \in 0..n /\ k + 1 \in 0..n /\ k + 1 \in 1..n /\ card \in DrawnCards
    BY <1>1
  <2>2. q \in Seq(DrawnCards) /\ Chosen(P, m, s, k, q)
    BY <1>4, <2>1
  <2>3. PICK l \in 0..m : (\A i \in 1..m : P[i] <= k <=> i <= l) /\ q = [i \in 1..l |-> s.cards[P[i]]]
    BY <2>2 DEF Chosen
  <2>4. CASE card.key \in CallIds
    <3>1. PICK a \in 1..m : P[a] = k + 1
      BY <2>1, <2>4 DEF CallPlaces, n
    <3>2. a = l + 1
      <4>1. ~(P[a] <= k)
        BY <1>1, <3>1
      <4>2. ~(a <= l)
        BY <2>3, <4>1
      <4>3. l + 1 \in 1..m /\ l + 1 <= a
        BY <4>2
      <4>4. ~(l + 1 <= l)
        OBVIOUS
      <4>5. ~(P[l + 1] <= k)
        BY <2>3, <4>3, <4>4
      <4>6. l + 1 < a => P[l + 1] < k + 1
        BY <3>1, <4>3 DEF CallPlaces
      <4> QED BY <1>1, <1>2, <4>3, <4>5, <4>6
    <3>3. \A i \in 1..m : P[i] <= k + 1 <=> i <= l + 1
      <4> SUFFICES ASSUME NEW i \in 1..m PROVE P[i] <= k + 1 <=> i <= l + 1
        OBVIOUS
      <4>1. (i < a => P[i] < k + 1) /\ (a < i => k + 1 < P[i])
        BY <3>1 DEF CallPlaces
      <4> QED BY <1>1, <1>2, <3>1, <3>2, <4>1
    <3> DEFINE r == Append(q, card)
               t == [i \in 1..(l + 1) |-> s.cards[P[i]]]
    <3>4. r \in Seq(DrawnCards)
      BY <2>1, <2>2
    <3>5. r = t
      <4>1. Len(q) = l /\ l \in Nat
        BY <2>2, <2>3
      <4>2. t[l + 1] = card
        BY <3>1, <3>2
      <4>3. \A i \in 1..l : t[i] = q[i]
        BY <2>3
      <4>4. t = [i \in 1..(l + 1) |-> t[i]]
        OBVIOUS
      <4> HIDE DEF t, card
      <4>5. Len(r) = l + 1 /\ r[l + 1] = card
        BY <2>1, <2>2, <4>1
      <4>6. \A i \in 1..l : r[i] = q[i]
        BY <2>1, <2>2, <4>1
      <4>7. \A i \in 1..(l + 1) : i = l + 1 \/ i \in 1..l
        BY <4>1
      <4> HIDE DEF r
      <4>8. \A i \in 1..(l + 1) : r[i] = t[i]
        BY <4>2, <4>3, <4>5, <4>6, <4>7
      <4>9. r = [i \in 1..(l + 1) |-> r[i]]
        BY <3>4, <4>5
      <4> QED BY <4>4, <4>8, <4>9
    <3>6. l + 1 \in 0..m
      BY <3>2
    <3> HIDE DEF r, t
    <3>7. Chosen(P, m, s, k + 1, t)
      BY <3>3, <3>6 DEF Chosen, t
    <3>8. OfCall(q, card) = r
      BY <2>4 DEF OfCall, r
    <3> QED BY <1>4, <2>1, <3>4, <3>5, <3>7, <3>8
  <2>5. CASE card.key \notin CallIds
    <3>1. \A i \in 1..m : P[i] # k + 1
      BY <2>1, <2>5 DEF CallPlaces, n
    <3>2. \A i \in 1..m : P[i] <= k + 1 <=> i <= l
      <4> SUFFICES ASSUME NEW i \in 1..m PROVE P[i] <= k + 1 <=> P[i] <= k
        BY <2>3
      <4> QED BY <1>1, <1>2, <3>1
    <3>3. Chosen(P, m, s, k + 1, q)
      BY <2>3, <3>2 DEF Chosen
    <3>4. OfCall(q, card) = q
      BY <2>5 DEF OfCall
    <3> QED BY <1>4, <2>1, <2>2, <3>3, <3>4
  <2> QED BY <2>4, <2>5
<1>7. OfCalls!Fold(<<>>, s.cards) \in T[n]
  <2>1. \A k \in 0..(n - 1) : \A q \in T[k] : OfCall(q, s.cards[k + 1]) \in T[k + 1]
    BY <1>6
  <2> DEFINE cards == s.cards
             none == <<>>
  <2>2. DOMAIN cards = 1..n /\ n \in Nat /\ none \in T[0] /\ \A k \in 0..(n - 1) : \A q \in T[k] : OfCall(q, cards[k + 1]) \in T[k + 1]
    BY <1>1, <1>5, <2>1
  <2> HIDE DEF cards, none
  <2>3. OfCalls!Fold(none, cards) \in T[n]
    BY <2>2, OfCalls!FoldStepwise
  <2> QED BY <2>3 DEF cards, none
<1>8. Chosen(P, m, s, n, CallCards(s))
  BY <1>1, <1>4, <1>7, CallCardsFold
<1>9. PICK l \in 0..m : (\A i \in 1..m : P[i] <= n <=> i <= l) /\ CallCards(s) = [i \in 1..l |-> s.cards[P[i]]]
  BY <1>8 DEF Chosen
<1>10. l = m
  <2>1. \A i \in 1..m : i <= l
    BY <1>1, <1>2, <1>9
  <2>2. CASE m = 0
    BY <2>2
  <2>3. CASE m # 0
    BY <2>1, <2>3
  <2> QED BY <2>2, <2>3
<1> QED BY <1>9, <1>10

----------------------------------------------------------------------------
(* The node and what is drawn and sent of it *)

\* The messages of the node against the live screen and the client.
NodeAgrees(n, v, cl) ==
  /\ Corresponds(DrawnOf(n.additions), OpenCalls(n.pending), v)
  /\ ClientAgrees(SentOf(n.additions), OpenCalls(n.pending), cl)

LEMMA NoneAsked == \A s : AskedOf(s, <<>>) = s
<1> SUFFICES ASSUME NEW s PROVE CardAdds!Fold(s, <<>>) = s
  BY DEF AskedOf
<1>1. DOMAIN <<>> = {}
  OBVIOUS
<1> QED BY <1>1, CardAdds!FoldEmpty

LEMMA AiSent ==
  ASSUME NEW ms \in Seq(TurnMessages), NEW text \in Text, NEW calls \in Seq(CallIds), NEW k \in CallIds
  PROVE  SentOf(Append(ms, Ai(text, calls))).card[k] = IF Contains(calls, k) THEN "completed" ELSE SentOf(ms).card[k]
<1>1. Ai(text, calls) \in TurnMessages
  BY AiIs
<1>2. SentOf(Append(ms, Ai(text, calls))) = MessageSent(SentOf(ms), Ai(text, calls))
  BY <1>1, TellMore
<1>3. Ai(text, calls).kind = "ai" /\ Ai(text, calls).calls = calls
  BY DEF Ai
<1>4. k \in Keys
  BY DEF Keys
<1> QED BY <1>2, <1>3, <1>4 DEF MessageSent

\* A request is drawn as a card more.
LEMMA RequestedTells ==
  ASSUME NEW n, NodeSound(n), NEW call \in CallIds, ~Contains(n.pending, call)
  PROVE  /\ \E x \in ToldScreens : /\ x.cards = DrawnOf(n.additions).cards /\ x.card = DrawnOf(n.additions).card
                                   /\ DrawnOf(Requested(n, call).additions) = AddCard(x, call)
         /\ \A k \in CallIds : k # call =>
              SentOf(Requested(n, call).additions).card[k] = SentOf(n.additions).card[k]
         /\ OpenCalls(Requested(n, call).pending) = OpenCalls(n.pending) \cup {call} /\ call \notin OpenCalls(n.pending)
<1> DEFINE ms == n.additions
           len == Len(ms)
           m == Requested(n, call)
           pending == Append(n.pending, call)
<1>1. n \in NodeSet /\ ms \in Seq(TurnMessages) /\ n.text \in Text /\ n.pending \in Seq(CallIds)
  BY DEF NodeSound, NodeSet
<1>2. len \in Nat /\ DOMAIN ms = 1..len
  BY <1>1
<1>3. OpenCalls(pending) = OpenCalls(n.pending) \cup {call}
  <2> DEFINE k == Len(n.pending)
  <2>1. /\ k \in Nat /\ Len(pending) = k + 1 /\ pending[k + 1] = call
        /\ \A i \in 1..k : pending[i] = n.pending[i]
    BY <1>1
  <2> HIDE DEF pending
  <2>2. \A c : c \in OpenCalls(pending) <=> c \in OpenCalls(n.pending) \/ c = call
    BY <2>1 DEF OpenCalls
  <2> QED BY <2>2
<1>4. call \notin OpenCalls(n.pending)
  BY <1>1 DEF Contains, OpenCalls
<1> HIDE DEF pending
<1>5. CASE JoinsBatch(n)
  <2>1. ms # <<>> /\ Last(ms).kind = "ai" /\ len # 0
    BY <1>1, <1>5 DEF JoinsBatch
  <2> DEFINE longer == [ms EXCEPT ![len].calls = Append(@, call)]
             last == ms[len]
             joined == [last EXCEPT !.calls = Append(@, call)]
             before == SubSeq(ms, 1, len - 1)
  <2>2. m.additions = longer /\ m.pending = pending
    BY <1>5 DEF Requested, pending
  <2>3. len \in 1..len /\ last \in TurnMessages /\ last.kind = "ai"
    BY <1>1, <1>2, <2>1 DEF Last
  <2>4. longer = [i \in 1..len |-> IF i = len THEN joined ELSE ms[i]]
    BY <1>1, <1>2
  <2>5. before \in Seq(TurnMessages) /\ Len(before) = len - 1 /\ \A i \in 1..(len - 1) : before[i] = ms[i]
    BY <1>1, <1>2, <2>1
  <2>6. last \in [kind : {"ai"}, text : Text, calls : Seq(CallIds)]
    BY <2>3 DEF TurnMessages
  <2>a. ms = Append(before, last)
    BY <1>1, <1>2, <2>1
  <2> HIDE DEF last
  <2>7. joined = Ai(last.text, Append(last.calls, call)) /\ last = Ai(last.text, last.calls)
    <3>1. last = [kind |-> "ai", text |-> last.text, calls |-> last.calls]
      BY <2>6
    <3> QED BY <3>1 DEF Ai
  <2> DEFINE calls == last.calls
             more == Append(calls, call)
             text == last.text
  <2>8. more \in Seq(CallIds) /\ calls \in Seq(CallIds) /\ text \in Text
    BY <2>6
  <2>9. Ai(text, more) \in TurnMessages /\ Ai(text, calls) \in TurnMessages
    BY <2>8, AiIs
  <2>b. \A k \in CallIds : k # call => (Contains(more, k) <=> Contains(calls, k))
    <3> SUFFICES ASSUME NEW k \in CallIds, k # call PROVE Contains(more, k) <=> Contains(calls, k)
      OBVIOUS
    <3>1. (\E i \in 1..Len(more) : more[i] = k) <=> (\E i \in 1..Len(calls) : calls[i] = k)
      BY <2>8
    <3> QED BY <3>1 DEF Contains
  <2>c. AskedOf(TextShown(DrawnOf(before), text), more) = AddCard(AskedOf(TextShown(DrawnOf(before), text), calls), call)
    BY <2>8, AskedAppend
  <2> HIDE DEF joined, longer, before, more, calls, text
  <2>10. longer = Append(before, joined)
    <3> DEFINE other == Append(before, joined)
    <3>1. joined \in TurnMessages
      BY <2>7, <2>9 DEF more, calls, text
    <3>2. Len(other) = (len - 1) + 1 /\ other[(len - 1) + 1] = joined /\ other \in Seq(TurnMessages)
          /\ \A i \in 1..(len - 1) : other[i] = before[i]
      BY <1>2, <2>5, <3>1
    <3>3. (len - 1) + 1 = len
      BY <1>2
    <3> HIDE DEF other, len
    <3>4. \A i \in 1..len : other[i] = IF i = len THEN joined ELSE ms[i]
      <4> SUFFICES ASSUME NEW i \in 1..len PROVE other[i] = IF i = len THEN joined ELSE ms[i]
        OBVIOUS
      <4>1. i = len \/ i \in 1..(len - 1)
        BY <1>2
      <4>2. i \in 1..(len - 1) => i # len
        BY <1>2
      <4> QED BY <2>5, <3>2, <3>3, <4>1, <4>2
    <3>5. other = [i \in 1..len |-> other[i]]
      BY <3>2, <3>3
    <3>6. other = longer
      BY <2>4, <3>4, <3>5
    <3> QED BY <3>6 DEF other
  <2>11. DrawnOf(longer) = AddCard(DrawnOf(ms), call)
    <3>1. joined = Ai(text, more) /\ last = Ai(text, calls)
      BY <2>7 DEF more, calls, text
    <3>2. DrawnOf(longer) = MessageDrawn(DrawnOf(before), Ai(text, more))
      BY <2>5, <2>9, <2>10, <3>1, TellMore
    <3>3. DrawnOf(ms) = MessageDrawn(DrawnOf(before), Ai(text, calls))
      BY <2>5, <2>9, <2>a, <3>1, TellMore
    <3> QED BY <2>c, <3>2, <3>3, AiDrawn
  <2>12. ASSUME NEW k \in CallIds, k # call PROVE SentOf(longer).card[k] = SentOf(ms).card[k]
    <3>1. joined = Ai(text, more) /\ last = Ai(text, calls)
      BY <2>7 DEF more, calls, text
    <3>2. SentOf(longer).card[k] = IF Contains(more, k) THEN "completed" ELSE SentOf(before).card[k]
      BY <2>5, <2>8, <2>10, <3>1, AiSent
    <3>3. SentOf(ms).card[k] = IF Contains(calls, k) THEN "completed" ELSE SentOf(before).card[k]
      BY <2>5, <2>8, <2>a, <3>1, AiSent
    <3> QED BY <2>12, <2>b, <3>2, <3>3
  <2>13. DrawnOf(ms) \in ToldScreens
    BY <1>1, AllTold
  <2> QED BY <1>3, <1>4, <2>2, <2>11, <2>12, <2>13
<1>6. CASE ~JoinsBatch(n)
  <2> DEFINE one == <<call>>
             longer == Append(ms, Ai(n.text, one))
             x == TextShown(DrawnOf(ms), n.text)
  <2>1. m.additions = longer /\ m.pending = pending
    BY <1>6 DEF Requested, pending
  <2>2. one \in Seq(CallIds) /\ \A k \in CallIds : k # call => ~Contains(one, k)
    BY DEF Contains
  <2>3. one = Append(<<>>, call)
    OBVIOUS
  <2> DEFINE none == <<>>
  <2>4. none \in Seq(CallIds) /\ AskedOf(x, none) = x
    BY NoneAsked
  <2>5. one = Append(none, call)
    BY <2>3
  <2> HIDE DEF one, none
  <2>6. Ai(n.text, one) \in TurnMessages
    BY <1>1, <2>2, AiIs
  <2>7. DrawnOf(longer) = MessageDrawn(DrawnOf(ms), Ai(n.text, one))
    BY <1>1, <2>6, TellMore
  <2>8. MessageDrawn(DrawnOf(ms), Ai(n.text, one)) = AskedOf(x, one)
    BY AiDrawn
  <2>9. DrawnOf(ms) \in ToldScreens
    BY <1>1, AllTold
  <2>10. x \in ToldScreens /\ Quiet(DrawnOf(ms), x)
    BY <1>1, <2>9, ToldText
  <2> HIDE DEF x
  <2>11. AskedOf(x, one) = AddCard(x, call)
    BY <2>4, <2>5, AskedAppend
  <2>12. ASSUME NEW k \in CallIds, k # call PROVE SentOf(longer).card[k] = SentOf(ms).card[k]
    BY <1>1, <2>2, <2>12, AiSent
  <2>13. DrawnOf(longer) = AddCard(x, call)
    BY <2>7, <2>8, <2>11
  <2>14. x.cards = DrawnOf(ms).cards /\ x.card = DrawnOf(ms).card
    BY <2>10 DEF Quiet
  <2> HIDE DEF longer
  <2> QED BY <1>3, <1>4, <2>1, <2>10, <2>12, <2>13, <2>14
<1> QED BY <1>5, <1>6

LEMMA RequestedMatches ==
  ASSUME NEW n, NodeSound(n), NEW call \in CallIds, ~Contains(n.pending, call),
         NEW v, FitsScreen(v), NEW w, CardAdded(v, w, call), NEW cl, NEW cm, NodeAgrees(n, v, cl),
         cm.card[call] = "in_progress", \A c \in CallIds : c # call => cm.card[c] = cl.card[c]
  PROVE  NodeAgrees(Requested(n, call), w, cm)
<1> DEFINE open == OpenCalls(n.pending)
           M == DrawnOf(n.additions)
           m == Requested(n, call)
<1>1. PICK x \in ToldScreens : x.cards = M.cards /\ x.card = M.card /\ DrawnOf(m.additions) = AddCard(x, call)
  BY RequestedTells
<1>2. /\ OpenCalls(m.pending) = open \cup {call} /\ call \notin open
      /\ \A k \in CallIds : k # call => SentOf(m.additions).card[k] = SentOf(n.additions).card[k]
  BY RequestedTells
<1>3. Corresponds(M, open, v) /\ ClientAgrees(SentOf(n.additions), open, cl)
  BY DEF NodeAgrees
<1>4. open \subseteq CallIds
  <2>1. n.pending \in Seq(CallIds)
    BY DEF NodeSound, NodeSet
  <2> QED BY <2>1 DEF OpenCalls
<1> HIDE DEF open, M, m
<1>5. Corresponds(x, open, v)
  BY <1>1, <1>3, CorrQuiet DEF Corresponds
<1>6. CardAdded(x, AddCard(x, call), call) /\ FitsScreen(x)
  BY ToldAsks DEF ToldScreens
<1>7. Corresponds(DrawnOf(m.additions), OpenCalls(m.pending), w)
  BY <1>1, <1>2, <1>4, <1>5, <1>6, CorrAsk
<1>8. ClientAgrees(SentOf(m.additions), OpenCalls(m.pending), cm)
  BY <1>2, <1>3 DEF ClientAgrees
<1> QED BY <1>7, <1>8 DEF NodeAgrees, m

\* A call is answered; or the node answers for a tool that did not.
LEMMA AnswerMatches ==
  ASSUME NEW ms \in Seq(TurnMessages), NEW open, open \subseteq CallIds, NEW call \in open, NEW outcome,
         NEW v, FitsScreen(v), NEW w, NEW cl, NEW cm,
         Corresponds(DrawnOf(ms), open, v), ClientAgrees(SentOf(ms), open, cl),
         \/ AnsweredIn(v, w, call, Status(outcome)) /\ cm.card[call] = Outcome(outcome)
         \/ w = v /\ outcome = "error" /\ cm.card[call] = cl.card[call],
         \A c \in CallIds : c # call => cm.card[c] = cl.card[c]
  PROVE  /\ Corresponds(DrawnOf(Append(ms, ToolMessage(call, outcome))), open \ {call}, w)
         /\ ClientAgrees(SentOf(Append(ms, ToolMessage(call, outcome))), open \ {call}, cm)
<1> DEFINE m == ToolMessage(call, outcome)
           M == DrawnOf(ms)
           N == DrawnOf(Append(ms, m))
<1>1. call \in CallIds /\ call \in Keys
  BY DEF Keys
<1>2. m \in TurnMessages /\ m.kind = "tool" /\ m.call = call /\ m.failed = Failing(outcome)
  BY <1>1, ToolIs DEF ToolMessage
<1>3. N = CardAnswered(M, call, Status(outcome))
  BY <1>2, TellMore, ToolDrawn
<1>4. SentOf(Append(ms, m)) = MessageSent(SentOf(ms), m)
  BY <1>2, TellMore
<1>5. Status(outcome) \in {"success", "error", "rejected"} /\ Status(outcome) # "running"
      /\ (outcome = "error" => Status(outcome) = "error")
  BY DEF Status, Failing
<1>6. M \in ToldScreens /\ SentOf(ms) \in Clients
  BY AllTold
<1> HIDE DEF m, M, N
<1>7. AnsweredIn(M, N, call, Status(outcome))
  BY <1>1, <1>3, <1>5, <1>6, ResultDrawn
<1>8. Corresponds(M, open, v) /\ FitsScreen(M)
  BY <1>6 DEF M, ToldScreens
<1>9. AnsweredIn(v, w, call, Status(outcome)) \/ (w = v /\ Status(outcome) = "error")
  BY <1>5
<1> DEFINE status == Status(outcome)
<1> HIDE DEF status
<1>10. status # "running" /\ AnsweredIn(M, N, call, status) /\ (AnsweredIn(v, w, call, status) \/ (w = v /\ status = "error"))
  BY <1>5, <1>7, <1>9 DEF status
<1>11. Corresponds(N, open \ {call}, w)
  BY <1>8, <1>10, CorrAnswer
<1>12. SentOf(Append(ms, m)).card = [SentOf(ms).card EXCEPT ![call] = Outcome(outcome)]
  <2>1. MessageSent(SentOf(ms), m) = [SentOf(ms) EXCEPT !.card[m.call] = IF m.failed THEN "failed" ELSE "completed"]
    BY <1>2 DEF MessageSent
  <2>2. Outcome(outcome) = IF m.failed THEN "failed" ELSE "completed"
    BY <1>2 DEF Outcome
  <2> DEFINE s == SentOf(ms)
             o == Outcome(outcome)
  <2>3. MessageSent(s, m) = [s EXCEPT !.card[call] = o] /\ s \in Clients
    BY <1>2, <1>6, <2>1, <2>2
  <2> HIDE DEF s, o
  <2>4. MessageSent(s, m).card = [s.card EXCEPT ![call] = o]
    BY <2>3 DEF Clients
  <2> QED BY <1>4, <2>4 DEF s, o
<1>13. SentOf(ms).card \in [Keys -> ClientCards]
  BY <1>6 DEF Clients
<1>14. ASSUME NEW c \in CallIds
       PROVE  /\ c \in open \ {call} => cm.card[c] = "in_progress"
              /\ cm.card[c] \in {"failed", "completed"} => SentOf(Append(ms, m)).card[c] = cm.card[c]
  <2>1. CASE c # call
    <3>1. SentOf(Append(ms, m)).card[c] = SentOf(ms).card[c]
      BY <1>12, <1>13, <2>1 DEF Keys
    <3> QED BY <2>1, <3>1 DEF ClientAgrees
  <2>2. CASE c = call
    <3>1. SentOf(Append(ms, m)).card[c] = Outcome(outcome)
      BY <1>1, <1>12, <1>13, <2>2
    <3>2. cl.card[c] = "in_progress"
      BY <2>2 DEF ClientAgrees
    <3> QED BY <2>2, <3>1, <3>2
  <2> QED BY <2>1, <2>2
<1>15. ClientAgrees(SentOf(Append(ms, m)), open \ {call}, cm)
  BY <1>14 DEF ClientAgrees
<1> QED BY <1>11, <1>15 DEF N, m

LEMMA AnsweredMatches ==
  ASSUME NEW n, NodeSound(n), NEW call \in CallIds, Contains(n.pending, call), NEW outcome,
         NEW v, FitsScreen(v), NEW w, AnsweredIn(v, w, call, Status(outcome)), NEW cl, NEW cm, NodeAgrees(n, v, cl),
         cm.card[call] = Outcome(outcome), \A c \in CallIds : c # call => cm.card[c] = cl.card[c]
  PROVE  NodeAgrees(Answered(n, call, outcome), w, cm)
<1> DEFINE longer == Append(n.additions, ToolMessage(call, outcome))
           rest == RemoveFirst(n.pending, call)
           m == Answered(n, call, outcome)
           open == OpenCalls(n.pending)
<1>1. n \in NodeSet /\ n.additions \in Seq(TurnMessages) /\ n.pending \in Seq(CallIds) /\ OnceEach(n.pending)
  BY DEF NodeSound, NodeSet
<1>2. m.additions = longer /\ m.pending = rest
  <2>1. n = [additions |-> n.additions, text |-> n.text, pending |-> n.pending]
    BY <1>1 DEF NodeSet
  <2>2. m = [n EXCEPT !.additions = longer, !.pending = rest]
    BY DEF Answered
  <2> HIDE DEF longer, rest, m
  <2> QED BY <2>1, <2>2
<1>3. OpenCalls(rest) = open \ {call}
  BY <1>1, WithoutFirst
<1>4. call \in open /\ open \subseteq CallIds
  BY <1>1 DEF Contains, OpenCalls
<1>5. Corresponds(DrawnOf(n.additions), open, v) /\ ClientAgrees(SentOf(n.additions), open, cl)
  BY DEF NodeAgrees
<1> DEFINE ms == n.additions
<1>6. ms \in Seq(TurnMessages) /\ Corresponds(DrawnOf(ms), open, v) /\ ClientAgrees(SentOf(ms), open, cl)
  BY <1>1, <1>5
<1> HIDE DEF open, rest, m, ms
<1>7. /\ Corresponds(DrawnOf(Append(ms, ToolMessage(call, outcome))), open \ {call}, w)
      /\ ClientAgrees(SentOf(Append(ms, ToolMessage(call, outcome))), open \ {call}, cm)
  BY <1>4, <1>6, AnswerMatches
<1> QED BY <1>2, <1>3, <1>7 DEF NodeAgrees, m, ms

\* The errors the node answers with for the first l of its pending calls.
HeardOf(q, l) == [i \in 1..l |-> ToolMessage(q[i], "error")]

LEMMA HeardMore ==
  ASSUME NEW ms \in Seq(TurnMessages), NEW q \in Seq(CallIds), NEW l \in Nat, l + 1 <= Len(q)
  PROVE  /\ ms \o HeardOf(q, l + 1) = Append(ms \o HeardOf(q, l), ToolMessage(q[l + 1], "error"))
         /\ ms \o HeardOf(q, l) \in Seq(TurnMessages)
<1> DEFINE k == Len(q)
           Heard(j) == HeardOf(q, j)
           m == ToolMessage(q[l + 1], "error")
<1>1. k \in Nat /\ \A i \in 1..k : ToolMessage(q[i], "error") \in TurnMessages
  BY ToolIs
<1>2. l + 1 \in 1..k /\ l \in 0..k /\ l + 1 \in 0..k
  BY <1>1
<1>3. m \in TurnMessages
  BY <1>1, <1>2
<1>4. \A j \in 0..k : Heard(j) \in Seq(TurnMessages) /\ Len(Heard(j)) = j /\ \A i \in 1..j : Heard(j)[i] = ToolMessage(q[i], "error")
  <2> SUFFICES ASSUME NEW j \in 0..k
               PROVE  Heard(j) \in Seq(TurnMessages) /\ Len(Heard(j)) = j /\ \A i \in 1..j : Heard(j)[i] = ToolMessage(q[i], "error")
    OBVIOUS
  <2>1. \A i \in 1..j : ToolMessage(q[i], "error") \in TurnMessages
    BY <1>1
  <2>2. j \in Nat
    BY <1>1
  <2> QED BY <2>1, <2>2 DEF HeardOf
<1> DEFINE fewer == Heard(l)
           more == Heard(l + 1)
<1>5. /\ fewer \in Seq(TurnMessages) /\ Len(fewer) = l /\ more \in Seq(TurnMessages) /\ Len(more) = l + 1
      /\ \A i \in 1..l : fewer[i] = ToolMessage(q[i], "error")
      /\ \A i \in 1..(l + 1) : more[i] = ToolMessage(q[i], "error")
  BY <1>2, <1>4
<1> DEFINE one == <<m>>
<1>6. one \in Seq(TurnMessages)
  BY <1>3
<1> HIDE DEF k, Heard, fewer, more
<1>7. more = Append(fewer, m)
  <2> DEFINE other == Append(fewer, m)
  <2>1. other \in Seq(TurnMessages) /\ Len(other) = l + 1 /\ other[l + 1] = m /\ \A i \in 1..l : other[i] = fewer[i]
    BY <1>3, <1>5
  <2>2. \A i \in 1..(l + 1) : i = l + 1 \/ i \in 1..l
    OBVIOUS
  <2> HIDE DEF other
  <2>3. \A i \in 1..(l + 1) : other[i] = more[i]
    BY <1>5, <2>1, <2>2
  <2>4. other = [i \in 1..(l + 1) |-> other[i]]
    BY <2>1
  <2>5. more = [i \in 1..(l + 1) |-> more[i]]
    BY <1>5
  <2>6. other = more
    BY <2>3, <2>4, <2>5
  <2> QED BY <2>6 DEF other
<1>8. Append(fewer, m) = fewer \o one
  BY <1>3, <1>5, AppendIsConcat
<1>9. ms \o fewer \in Seq(TurnMessages)
  BY <1>5, ConcatProperties
<1>10. Append(ms \o fewer, m) = (ms \o fewer) \o one
  BY <1>3, <1>9, AppendIsConcat
<1> HIDE DEF one, m
<1>11. (ms \o fewer) \o one = ms \o (fewer \o one)
  BY <1>5, <1>6, ConcatAssociative
<1>12. ms \o more = Append(ms \o fewer, m)
  BY <1>7, <1>8, <1>10, <1>11
<1> QED BY <1>9, <1>12 DEF fewer, more, Heard, m

\* The open calls are settled one by one.
LEMMA SettledStepwise ==
  ASSUME NEW n, NodeSound(n), NEW Q, n.additions \in Q[0],
         \A l \in 0..(Len(n.pending) - 1), ms \in Seq(TurnMessages) :
            ms \in Q[l] => Append(ms, ToolMessage(n.pending[l + 1], "error")) \in Q[l + 1]
  PROVE  CallsSettled(n).additions \in Q[Len(n.pending)] /\ CallsSettled(n).pending = <<>>
<1> DEFINE ms == n.additions
           q == n.pending
           k == Len(q)
           all == ms \o HeardOf(q, k)
           P == {l \in Nat : l <= k => ms \o HeardOf(q, l) \in Q[l]}
<1>1. n \in NodeSet /\ ms \in Seq(TurnMessages) /\ q \in Seq(CallIds)
  BY DEF NodeSound, NodeSet
<1>2. k \in Nat
  BY <1>1
<1>3. CallsSettled(n).additions = all /\ CallsSettled(n).pending = <<>>
  <2>1. n = [additions |-> n.additions, text |-> n.text, pending |-> n.pending]
    BY <1>1 DEF NodeSet
  <2>2. CallsSettled(n) = [n EXCEPT !.additions = all, !.pending = <<>>]
    BY DEF CallsSettled, HeardOf
  <2> HIDE DEF all
  <2> QED BY <2>1, <2>2
<1>4. 0 \in P
  <2>1. HeardOf(q, 0) = <<>>
    BY DEF HeardOf
  <2>2. ms \o <<>> = ms
    BY <1>1
  <2> QED BY <2>1, <2>2
<1>5. ASSUME NEW l \in Nat, l \in P PROVE l + 1 \in P
  <2> SUFFICES ASSUME l + 1 <= k PROVE ms \o HeardOf(q, l + 1) \in Q[l + 1]
    <3>1. l + 1 \in Nat
      OBVIOUS
    <3> HIDE DEF ms, k
    <3> QED BY <3>1
  <2>1. l \in 0..(k - 1) /\ l <= k
    BY <1>2
  <2> DEFINE before == ms \o HeardOf(q, l)
             m == ToolMessage(q[l + 1], "error")
  <2>2. before \in Q[l]
    BY <1>5, <2>1
  <2>3. before \in Seq(TurnMessages) /\ ms \o HeardOf(q, l + 1) = Append(before, m)
    BY <1>1, HeardMore
  <2> HIDE DEF P, before
  <2>4. Append(before, m) \in Q[l + 1]
    BY <2>1, <2>2, <2>3
  <2> QED BY <2>3, <2>4
<1> HIDE DEF P
<1>6. k \in P
  BY <1>2, <1>4, <1>5, Keeps!NatSet
<1>7. all \in Q[k]
  BY <1>2, <1>6 DEF P
<1> QED BY <1>3, <1>7

LEMMA SettledMatches ==
  ASSUME NEW n, NodeSound(n), NEW v, FitsScreen(v), NEW cl, NodeAgrees(n, v, cl)
  PROVE  NodeAgrees(CallsSettled(n), v, cl) /\ CallsSettled(n).pending = <<>>
<1> DEFINE q == n.pending
           k == Len(q)
           Left(l) == {q[i] : i \in (l + 1)..k}
           Q == [l \in 0..k |-> {ms \in Seq(TurnMessages) :
                                   Corresponds(DrawnOf(ms), Left(l), v) /\ ClientAgrees(SentOf(ms), Left(l), cl)}]
<1>1. n.additions \in Seq(TurnMessages) /\ q \in Seq(CallIds) /\ OnceEach(q)
  BY DEF NodeSound, NodeSet
<1>2. k \in Nat /\ \A i \in 1..k : q[i] \in CallIds
  BY <1>1
<1>3. ASSUME NEW l \in 0..(k - 1), NEW ms \in Seq(TurnMessages), ms \in Q[l]
      PROVE  Append(ms, ToolMessage(q[l + 1], "error")) \in Q[l + 1]
  <2>1. l \in 0..k /\ l + 1 \in 0..k /\ l + 1 \in 1..k
    BY <1>2
  <2> DEFINE call == q[l + 1]
             open == Left(l)
             more == Append(ms, ToolMessage(call, "error"))
  <2>2. Left(l + 1) = open \ {call} /\ call \in open
    <3>1. \A i \in (l + 1)..k : q[i] = call => i = l + 1
      BY <1>2, <1>1, <2>1 DEF OnceEach
    <3>2. \A i \in (l + 1)..k : i = l + 1 \/ i \in ((l + 1) + 1)..k
      BY <2>1
    <3>3. \A i \in ((l + 1) + 1)..k : i \in (l + 1)..k /\ i # l + 1
      BY <2>1
    <3>4. l + 1 \in (l + 1)..k
      BY <2>1
    <3> QED BY <3>1, <3>2, <3>3, <3>4
  <2>3. open \subseteq CallIds
    BY <1>2, <2>1
  <2>4. Corresponds(DrawnOf(ms), open, v) /\ ClientAgrees(SentOf(ms), open, cl)
    BY <1>3, <2>1
  <2>5. call \in CallIds
    BY <2>2, <2>3
  <2> HIDE DEF open, call
  <2>6. /\ Corresponds(DrawnOf(more), open \ {call}, v) /\ ClientAgrees(SentOf(more), open \ {call}, cl)
    BY <2>2, <2>3, <2>4, AnswerMatches
  <2>7. more \in Seq(TurnMessages)
    BY <2>5, ToolIs
  <2> HIDE DEF more
  <2>8. more \in {x \in Seq(TurnMessages) : Corresponds(DrawnOf(x), Left(l + 1), v) /\ ClientAgrees(SentOf(x), Left(l + 1), cl)}
    BY <2>2, <2>6, <2>7
  <2>9. more \in Q[l + 1]
    BY <2>1, <2>8
  <2> QED BY <2>9 DEF more, call
<1>4. Left(0) = OpenCalls(q) /\ Left(k) = {} /\ OpenCalls(<<>>) = {}
  <2>1. (k + 1)..k = {} /\ 1..Len(<<>>) = {}
    BY <1>2
  <2> QED BY <2>1 DEF OpenCalls
<1>5. n.additions \in Q[0]
  <2>1. Corresponds(DrawnOf(n.additions), OpenCalls(q), v) /\ ClientAgrees(SentOf(n.additions), OpenCalls(q), cl)
    BY DEF NodeAgrees
  <2>2. 0 \in 0..k
    BY <1>2
  <2> QED BY <1>1, <1>4, <2>1, <2>2
<1>6. k \in 0..k
  BY <1>2
<1>7. \A ms : ms \in Q[k] => Corresponds(DrawnOf(ms), {}, v) /\ ClientAgrees(SentOf(ms), {}, cl)
  BY <1>4, <1>6
<1> HIDE DEF Q
<1>8. CallsSettled(n).additions \in Q[k] /\ CallsSettled(n).pending = <<>>
  BY <1>3, <1>5, SettledStepwise
<1> QED BY <1>4, <1>7, <1>8 DEF NodeAgrees

LEMMA EchoMatches ==
  ASSUME NEW n, NodeSound(n), NEW v, NEW cl, NodeAgrees(n, v, cl) PROVE NodeAgrees(WithoutEcho(n), v, cl)
<1>1. n \in NodeSet
  BY DEF NodeSound
<1>2. WithoutEcho(n).additions = n.additions /\ WithoutEcho(n).pending = n.pending
  BY <1>1 DEF WithoutEcho, NodeSet
<1> QED BY <1>2 DEF NodeAgrees

LEMMA SaidMatches ==
  ASSUME NEW n, NodeSound(n), NEW chunk, NEW v, NEW cl, NodeAgrees(n, v, cl) PROVE NodeAgrees(Said(n, chunk), v, cl)
<1>1. n \in NodeSet
  BY DEF NodeSound
<1>2. Said(n, chunk).additions = n.additions /\ Said(n, chunk).pending = n.pending
  BY <1>1 DEF Said, NodeSet
<1> QED BY <1>2 DEF NodeAgrees

LEMMA BrokenMatches ==
  ASSUME NEW n, NodeSound(n), NEW onFinal \in BOOLEAN, NEW v, FitsScreen(v), NEW cl, NodeAgrees(n, v, cl),
         NEW m, m = CallsSettled(IF onFinal THEN WithoutEcho(n) ELSE n)
  PROVE  NodeAgrees(m, v, cl) /\ m.pending = <<>>
<1>1. CASE onFinal
  <2>1. m = CallsSettled(WithoutEcho(n))
    BY <1>1
  <2>2. NodeSound(WithoutEcho(n)) /\ NodeAgrees(WithoutEcho(n), v, cl)
    BY EchoKeeps, EchoMatches
  <2> QED BY <2>1, <2>2, SettledMatches
<1>2. CASE ~onFinal
  BY <1>2, SettledMatches
<1> QED BY <1>1, <1>2

\* The live screen goes on beside its calls.
LEMMA AlikeMatches ==
  ASSUME NEW n, NodeSound(n), NEW v, FitsScreen(v), NEW w, FitsScreen(w), CallsAlike(v, w), NEW cl, NEW cm,
         NodeAgrees(n, v, cl), \A c \in CallIds : cm.card[c] = cl.card[c]
  PROVE  NodeAgrees(n, w, cm)
<1>1. OpenCalls(n.pending) \subseteq CallIds
  <2>1. n.pending \in Seq(CallIds)
    BY DEF NodeSound, NodeSet
  <2> QED BY <2>1 DEF OpenCalls
<1>2. v \in Screens /\ w \in Screens
  BY DEF FitsScreen
<1>3. Corresponds(DrawnOf(n.additions), OpenCalls(n.pending), v) /\ ClientAgrees(SentOf(n.additions), OpenCalls(n.pending), cl)
  BY DEF NodeAgrees
<1>4. Corresponds(DrawnOf(n.additions), OpenCalls(n.pending), w)
  BY <1>1, <1>2, <1>3, CorrAlike DEF Corresponds
<1>5. ClientAgrees(SentOf(n.additions), OpenCalls(n.pending), cm)
  BY <1>1, <1>3 DEF ClientAgrees
<1> QED BY <1>4, <1>5 DEF NodeAgrees

\* What the turn commits.
LEMMA ResultMatches ==
  ASSUME NEW n, NodeSound(n), NEW hidden, NEW v, FitsScreen(v), NEW cl, NodeAgrees(n, v, cl)
  PROVE  NodeAgrees(Result(n, hidden), v, cl) /\ Result(n, hidden).pending = <<>>
<1> DEFINE s == CallsSettled(n)
           m == Result(n, hidden)
<1>1. NodeSound(s) /\ NodeAgrees(s, v, cl) /\ s.pending = <<>>
  BY SettledKeeps, SettledMatches
<1> HIDE DEF s
<1>2. s \in NodeSet /\ s.additions \in Seq(TurnMessages) /\ s.text \in Text
  BY <1>1 DEF NodeSound, NodeSet
<1>3. CASE s.text # <<>> \/ s.additions = <<>> \/ hidden
  <2> DEFINE none == <<>>
             last == Ai(s.text, none)
             all == Append(s.additions, last)
             M == DrawnOf(s.additions)
  <2>0. none \in Seq(CallIds) /\ \A k : ~Contains(none, k)
    BY DEF Contains
  <2>1. m.additions = all /\ m.pending = <<>>
    <3>1. m = [s EXCEPT !.additions = Append(@, last), !.text = <<>>]
      BY <1>3 DEF Result, s
    <3>2. s = [additions |-> s.additions, text |-> s.text, pending |-> s.pending]
      BY <1>2 DEF NodeSet
    <3> HIDE DEF last, m
    <3> QED BY <1>1, <3>1, <3>2
  <2>2. \A x : AskedOf(x, none) = x
    BY NoneAsked
  <2> HIDE DEF none
  <2>3. last \in TurnMessages
    BY <1>2, <2>0, AiIs
  <2>4. DrawnOf(all) = TextShown(M, s.text)
    <3>1. DrawnOf(all) = MessageDrawn(M, last)
      BY <1>2, <2>3, TellMore
    <3> QED BY <2>2, <3>1, AiDrawn
  <2>5. Quiet(M, TextShown(M, s.text))
    <3>1. M \in ToldScreens
      BY <1>2, AllTold
    <3> HIDE DEF M
    <3> QED BY <1>2, <3>1, ToldText
  <2>6. DrawnOf(all).cards = M.cards /\ DrawnOf(all).card = M.card
    BY <2>4, <2>5 DEF Quiet
  <2>7. \A k \in CallIds : SentOf(all).card[k] = SentOf(s.additions).card[k]
    BY <1>2, <2>0, AiSent
  <2>8. Corresponds(M, OpenCalls(s.pending), v) /\ ClientAgrees(SentOf(s.additions), OpenCalls(s.pending), cl)
    BY <1>1 DEF NodeAgrees
  <2> HIDE DEF all, M, m
  <2>9. Corresponds(DrawnOf(all), OpenCalls(s.pending), v)
    BY <2>6, <2>8, CorrQuiet DEF Corresponds
  <2>10. ClientAgrees(SentOf(all), OpenCalls(s.pending), cl)
    BY <2>7, <2>8 DEF ClientAgrees
  <2> QED BY <1>1, <2>1, <2>9, <2>10 DEF NodeAgrees, m
<1>4. CASE ~(s.text # <<>> \/ s.additions = <<>> \/ hidden)
  <2>1. m = s
    BY <1>4 DEF Result, s
  <2> QED BY <1>1, <2>1
<1> QED BY <1>3, <1>4

----------------------------------------------------------------------------
(* The turn, as the three of them keep it *)

\* The screen and the client have what was recorded.
Shared ==
  /\ recorded \in Seq(Drawables) /\ FitsScreen(view) /\ Marked(view)
  /\ Flat(view.texts) = Flat(StreamedOf(recorded))
  /\ client \in Clients /\ client.text = Flat(StreamedOf(recorded))
  /\ AllFollow(recorded, view)
Together == Shared /\ NodeAgrees(node, view, client)

LEMMA EventFlat ==
  ASSUME NEW es \in Seq(TurnEvents), NEW e \in TurnEvents
  PROVE  /\ e.type = "text" => Flat(StreamedOf(Append(es, e))) = Append(Flat(StreamedOf(es)), e.val)
         /\ e.type # "text" => Flat(StreamedOf(Append(es, e))) = Flat(StreamedOf(es))
<1> DEFINE t == IF e.type = "text" THEN <<e.val>> ELSE <<>>
           longer == Append(es, e)
           texts == StreamedOf(es)
           more == StreamedOf(longer)
<1>1. e.type = "text" => e.val \in Nat
  BY DEF TurnEvents
<1>2. t \in Text
  BY <1>1 DEF Text
<1>3. /\ longer \in Seq(TurnEvents) /\ Len(longer) = Len(es) + 1 /\ longer[Len(es) + 1] = e
      /\ \A i \in 1..Len(es) : longer[i] = es[i]
  OBVIOUS
<1>4. Len(es) \in Nat
  OBVIOUS
<1>5. texts \in Seq(Text) /\ Len(texts) = Len(es)
  BY StreamedTyped
<1> HIDE DEF longer
<1>6. /\ more \in Seq(Text) /\ Len(more) = Len(es) + 1 /\ more[Len(es) + 1] = t
      /\ \A i \in 1..Len(es) : more[i] = texts[i]
  <2>1. Len(es) + 1 \in 1..(Len(es) + 1) /\ \A i \in 1..Len(es) : i \in 1..(Len(es) + 1)
    BY <1>4
  <2> QED BY <1>3, <2>1, StreamedTyped
<1> HIDE DEF texts, more, t
<1>7. more = Append(texts, t)
  BY <1>2, <1>4, <1>5, <1>6
<1>8. Flat(more) = Flat(texts) \o t /\ Flat(texts) \in Seq(Nat)
  BY <1>2, <1>5, <1>7, FlatAppend, FlatTyped DEF Text
<1>9. CASE e.type = "text"
  <2>1. t = <<e.val>> /\ e.val \in Nat
    BY <1>1, <1>9 DEF t
  <2>2. Flat(more) = Append(Flat(texts), e.val)
    BY <1>8, <2>1
  <2> QED BY <1>9, <2>2 DEF more, texts, longer
<1>10. CASE e.type # "text"
  <2>1. t = <<>>
    BY <1>10 DEF t
  <2>2. Flat(more) = Flat(texts)
    BY <1>8, <2>1
  <2> QED BY <1>10, <2>2 DEF more, texts, longer
<1> QED BY <1>9, <1>10

\* What an event does to the cards the client keeps.
CardsSent(cl, e, cm) ==
  /\ e.type = "request" => cm.card[e.key] = "in_progress"
  /\ e.type = "result" => cm.card[e.key] = Outcome(e.val)
  /\ \A c \in CallIds : (e.type \in {"request", "result"} /\ c = e.key) \/ cm.card[c] = cl.card[c]

LEMMA EmittedTyped ==
  ASSUME NEW cl \in Clients, NEW e \in Drawables
  PROVE  LET cm == Emitted(cl, e) IN
         /\ cm \in Clients /\ cm.text = (IF e.type = "text" THEN Append(cl.text, e.val) ELSE cl.text)
         /\ CardsSent(cl, e, cm)
<1> DEFINE cm == Emitted(cl, e)
<1>1. cl = [text |-> cl.text, card |-> cl.card] /\ cl.text \in Seq(Nat) /\ cl.card \in [Keys -> ClientCards]
  BY DEF Clients, Text
<1>2. /\ e.type \in {"text", "reasoning", "request", "result", "worker", "final", "error"}
      /\ e.val \in Nat \cup Outcomes \cup Reports \cup {"none"} /\ (e.type = "text" => e.val \in Nat)
      /\ (e.type \in {"request", "result"} => e.key \in CallIds) /\ (e.type = "worker" => e.key \in Workers)
  <2>1. /\ e.type \in {"text", "reasoning", "request", "result", "worker", "final", "error"}
        /\ e.val \in Nat \cup Outcomes \cup Reports \cup {"none"} /\ (e.type = "text" => e.val \in Nat)
    BY DrawableIs
  <2> QED BY <2>1 DEF Drawables
<1>3. CASE e.type = "text"
  <2> DEFINE text == Append(cl.text, e.val)
  <2>1. cm = [cl EXCEPT !.text = text]
    BY <1>3 DEF Emitted
  <2>2. text \in Seq(Nat)
    BY <1>1, <1>2, <1>3
  <2> HIDE DEF text, cm
  <2>3. cm = [text |-> text, card |-> cl.card]
    BY <1>1, <2>1
  <2>4. cm \in Clients /\ cm.text = text /\ cm.card = cl.card
    BY <1>1, <2>2, <2>3 DEF Clients, Text
  <2> QED BY <1>3, <2>4 DEF CardsSent, cm, text
<1>4. ASSUME NEW k \in Keys, NEW card \in ClientCards, e.type # "text", cm = [cl EXCEPT !.card[k] = card]
      PROVE  /\ cm \in Clients /\ cm.text = cl.text /\ cm.card[k] = card
             /\ \A c \in CallIds : c = k \/ cm.card[c] = cl.card[c]
  <2> DEFINE cards == [cl.card EXCEPT ![k] = card]
  <2>1. cards \in [Keys -> ClientCards] /\ cards[k] = card /\ \A c \in Keys : c = k \/ cards[c] = cl.card[c]
    BY <1>1
  <2>2. cm = [text |-> cl.text, card |-> cards]
    BY <1>1, <1>4
  <2> HIDE DEF cards, cm
  <2>3. cm \in Clients /\ cm.text = cl.text /\ cm.card = cards
    BY <1>1, <2>1, <2>2 DEF Clients, Text
  <2>4. \A c \in CallIds : c \in Keys
    BY DEF Keys
  <2> QED BY <2>1, <2>3, <2>4
<1>5. CASE e.type = "request"
  <2> DEFINE k == e.key
             card == "in_progress"
  <2>1. k \in Keys /\ card \in ClientCards /\ e.type # "text"
    BY <1>2, <1>5 DEF Keys, ClientCards
  <2>2. cm = [cl EXCEPT !.card[k] = card]
    BY <1>5 DEF Emitted
  <2> HIDE DEF cm, k, card
  <2>3. cm \in Clients /\ cm.text = cl.text /\ cm.card[k] = card /\ \A c \in CallIds : c = k \/ cm.card[c] = cl.card[c]
    BY <1>4, <2>1, <2>2
  <2> QED BY <1>5, <2>3 DEF CardsSent, cm, k, card
<1>6. CASE e.type = "result"
  <2> DEFINE k == e.key
             card == Outcome(e.val)
  <2>1. k \in Keys /\ card \in ClientCards /\ e.type # "text"
    BY <1>2, <1>6 DEF Keys, ClientCards, Outcome, Statuses
  <2>2. cm = [cl EXCEPT !.card[k] = card]
    BY <1>6 DEF Emitted
  <2> HIDE DEF cm, k, card
  <2>3. cm \in Clients /\ cm.text = cl.text /\ cm.card[k] = card /\ \A c \in CallIds : c = k \/ cm.card[c] = cl.card[c]
    BY <1>4, <2>1, <2>2
  <2> QED BY <1>6, <2>3 DEF CardsSent, cm, k, card
<1>7. CASE e.type = "worker" /\ e.val # "keepalive"
  <2> DEFINE k == e.key
             card == Normalized(cl.card[k], e.val)
  <2>1. k \in Workers /\ k \in Keys /\ e.type # "text" /\ k \notin CallIds
    BY <1>2, <1>7, TranscriptAssumption DEF Keys
  <2>2. card \in ClientCards
    <3>1. cl.card[k] \in ClientCards /\ e.val \in ClientCards /\ "failed" \in ClientCards
      BY <1>1, <1>2, <2>1 DEF ClientCards, Statuses
    <3> QED BY <3>1 DEF Normalized
  <2>3. cm = [cl EXCEPT !.card[k] = card]
    <3>1. cm = [cl EXCEPT !.card[e.key] = Normalized(@, e.val)]
      BY <1>7 DEF Emitted
    <3> QED BY <1>1, <2>1, <3>1
  <2> HIDE DEF cm, k, card
  <2>4. cm \in Clients /\ cm.text = cl.text /\ cm.card[k] = card /\ \A c \in CallIds : c = k \/ cm.card[c] = cl.card[c]
    BY <1>4, <2>1, <2>2, <2>3
  <2>5. \A c \in CallIds : cm.card[c] = cl.card[c]
    BY <2>1, <2>4
  <2> QED BY <1>7, <2>4, <2>5 DEF CardsSent, cm
<1>8. CASE e.type \in {"reasoning", "final", "error"} \/ (e.type = "worker" /\ e.val = "keepalive")
  <2>1. cm = cl
    BY <1>8 DEF Emitted
  <2> HIDE DEF cm
  <2> QED BY <1>8, <2>1 DEF CardsSent, cm
<1> QED BY <1>2, <1>3, <1>5, <1>6, <1>7, <1>8

\* An event that is emitted.
LEMMA EventShared ==
  ASSUME Shared, NEW e \in Drawables, EmitEvent(e)
  PROVE  Shared' /\ CardsDrawn(view, e, view') /\ CardsSent(client, e, client')
<1>1. recorded' = Append(recorded, e) /\ view' = Draw(view, e) /\ client' = Emitted(client, e)
  BY DEF EmitEvent
<1>2. /\ recorded \in Seq(Drawables) /\ FitsScreen(view) /\ Marked(view) /\ Flat(view.texts) = Flat(StreamedOf(recorded))
      /\ client \in Clients /\ client.text = Flat(StreamedOf(recorded)) /\ AllFollow(recorded, view)
  BY DEF Shared
<1>3. recorded' \in Seq(Drawables) /\ recorded \in Seq(TurnEvents) /\ e \in TurnEvents
  <2>1. e \in TurnEvents /\ Drawables \subseteq TurnEvents
    BY DEF Drawables
  <2>2. recorded \in Seq(TurnEvents)
    BY <1>2, <2>1
  <2> QED BY <1>1, <1>2, <2>1, <2>2
<1>4. Grown(view, e, view') /\ CardsDrawn(view, e, view')
  BY <1>1, <1>2, DrawGrows
<1>5. AllFollow(recorded', view')
  BY <1>1, <1>2, AllFollowStep
<1>6. Flat(StreamedOf(recorded')) = IF e.type = "text" THEN Append(Flat(StreamedOf(recorded)), e.val) ELSE Flat(StreamedOf(recorded))
  BY <1>1, <1>3, EventFlat
<1>7. /\ client' \in Clients /\ client'.text = (IF e.type = "text" THEN Append(client.text, e.val) ELSE client.text)
      /\ CardsSent(client, e, client')
  BY <1>1, <1>2, EmittedTyped
<1>8. FitsScreen(view') /\ Marked(view')
      /\ Flat(view'.texts) = (IF e.type = "text" THEN Append(Flat(view.texts), e.val) ELSE Flat(view.texts))
  BY <1>2, <1>4 DEF Grown
<1>9. Flat(view'.texts) = Flat(StreamedOf(recorded')) /\ client'.text = Flat(StreamedOf(recorded'))
  BY <1>2, <1>6, <1>7, <1>8
<1> QED BY <1>3, <1>4, <1>5, <1>7, <1>8, <1>9 DEF Shared

LEMMA FrameDrawable ==
  ASSUME ~Numbered, TurnInv, NEW number,
         NEW type \in {"text", "reasoning", "request", "result", "worker", "final", "error"},
         NEW key \in Keys \cup {"none"}, NEW val \in Nat \cup Outcomes \cup Reports \cup {"none"},
         type = "text" => key = "none" /\ val \in Nat, type = "reasoning" => val \in Nat,
         type \in {"request", "result"} => key \in CallIds, type = "worker" => key \in Workers
  PROVE  LET e == FrameEvent(type, key, val, number) IN
         e \in Drawables /\ e.type = type /\ e.key = key /\ e.val = val
<1> DEFINE e == FrameEvent(type, key, val, number)
<1>1. attempt \in Nat
  BY DEF TurnInv
<1>2. /\ e = [type |-> type, key |-> key, val |-> val, turn |-> attempt, attempt |-> NoAttempt, seq |-> NoSequence]
      /\ NoSequence \in Nat
  BY DEF FrameEvent, NoSequence
<1> HIDE DEF e
<1>3. e \in TurnEvents
  <2>1. CASE type = "text"
    BY <1>1, <1>2, <2>1 DEF TurnEvents
  <2>2. CASE type # "text"
    BY <1>1, <1>2, <2>2 DEF TurnEvents
  <2> QED BY <2>1, <2>2
<1>4. e.type = type /\ e.key = key /\ e.val = val /\ e.seq = NoSequence
  BY <1>2
<1> QED BY <1>3, <1>4 DEF Drawables, e

\* The frame that carries a tool's result, drawn.
LEMMA ResultDrawable ==
  ASSUME ~Numbered, TurnInv, NEW number, NEW call \in CallIds, NEW outcome \in Outcomes
  PROVE  LET e == FrameEvent("result", call, outcome, number) IN
         e \in Drawables /\ e.type = "result" /\ e.key = call /\ e.val = outcome
<1> DEFINE e == FrameEvent("result", call, outcome, number)
<1>1. attempt \in Nat
  BY DEF TurnInv
<1>2. e = [type |-> "result", key |-> call, val |-> outcome, turn |-> attempt, attempt |-> NoAttempt, seq |-> NoSequence]
  BY DEF FrameEvent, NoSequence
<1>3. NoSequence \in Nat
  BY DEF NoSequence
<1>4. call \in Keys \cup {"none"} /\ outcome \in Nat \cup Outcomes \cup Reports \cup {"none"}
  BY DEF Keys
<1> HIDE DEF e
<1>5. e \in TurnEvents
  BY <1>1, <1>2, <1>3, <1>4 DEF TurnEvents
<1>6. e.type = "result" /\ e.key = call /\ e.val = outcome /\ e.seq = NoSequence
  BY <1>2
<1> QED BY <1>5, <1>6 DEF Drawables, e

----------------------------------------------------------------------------
(* The turn is opened again *)

\* The messages that are drawn, once no call is open.
LEMMA ToldStarts ==
  ASSUME NEW M \in ToldScreens, NEW v, Corresponds(M, {}, v)
  PROVE  RunClosed(M) \in Starts /\ Quiet(M, RunClosed(M)) /\ RunClosed(M).texts = M.texts
<1> DEFINE s == RunClosed(M)
<1>1. FitsScreen(M) /\ Marked(M)
  BY DEF ToldScreens
<1>2. Quiet(M, s) /\ SameWords(M, s)
  BY <1>1, RunClosedQuiet
<1> HIDE DEF s
<1>3. FitsScreen(s) /\ Marked(s)
  BY <1>1, <1>2, QuietFits
<1>4. s \in Screens
  BY <1>3 DEF FitsScreen
<1>5. s.thoughts = <<>> /\ s.errors = 0 /\ s.workers = NoReports
  BY <1>2 DEF ToldScreens, Quiet, SameWords
<1>6. \A w \in Workers : s.card[w] = 0
  BY <1>2 DEF ToldScreens, Quiet
<1>7. NoCallRuns(s)
  <2> SUFFICES ASSUME NEW c \in CallIds, s.card[c] # 0 PROVE s.cards[s.card[c]].status # "running"
    BY DEF NoCallRuns
  <2>1. M.card[c] = s.card[c] /\ M.cards = s.cards /\ c \in Keys
    BY <1>2 DEF Quiet, Keys
  <2>2. M.card[c] \in 1..Len(M.cards)
    BY <1>1, <2>1 DEF FitsScreen, Registered
  <2>3. M.cards[M.card[c]].status # "running"
    BY <2>2 DEF Corresponds, Corr, OpenMatched
  <2> QED BY <2>1, <2>3
<1>8. s \in Starts
  BY <1>3, <1>4, <1>5, <1>6, <1>7 DEF Starts
<1> QED BY <1>2, <1>8 DEF s, SameWords

\* The cards of calls, live and again.
LEMMA CallsShownAgain ==
  ASSUME NEW M \in Screens, NEW u \in Screens, NEW again \in Screens, NEW s0, Corresponds(M, {}, u), s0.cards = M.cards, CallsAlike(s0, again)
  PROVE  /\ Len(CallCards(again)) = Len(CallCards(u))
         /\ \A i \in DOMAIN CallCards(u) :
              CallCards(u)[i].status # "running" =>
                CallCards(again)[i].status = CallCards(u)[i].status /\ CallCards(again)[i].key = CallCards(u)[i].key
<1>1. PICK P : Corr(P, M, {}, u)
  BY DEF Corresponds
<1> DEFINE m == Len(M.cards)
           n == Len(again.cards)
           I == [i \in 1..m |-> i]
<1>2. m \in Nat /\ n \in Nat
  <2>1. m \in Nat
    BY DEF Screens
  <2>2. n \in Nat
    BY DEF Screens
  <2> QED BY <2>1, <2>2
<1>3. /\ P \in [1..m -> 1..Len(u.cards)] /\ \A i, j \in 1..m : i < j => P[i] < P[j]
      /\ \A j \in 1..Len(u.cards) : u.cards[j].key \in CallIds => \E i \in 1..m : P[i] = j
      /\ \A i \in 1..m : M.cards[i].key \in CallIds /\ u.cards[P[i]].key = M.cards[i].key
      /\ \A i \in 1..m : TellsStatus(M.cards[i].status, u.cards[P[i]].status)
  BY <1>1 DEF Corr, Matched
<1>4. CallPlaces(P, m, u)
  BY <1>3 DEF CallPlaces
<1>5. CallCards(u) = [i \in 1..m |-> u.cards[P[i]]]
  BY <1>2, <1>4, CallCardsAre
<1>6. /\ m <= n /\ \A i \in 1..m : again.cards[i].key = M.cards[i].key
      /\ \A i \in 1..m : again.cards[i].status = M.cards[i].status
      /\ \A i \in 1..n : i > m => again.cards[i].key \notin CallIds
  BY <1>3 DEF CallsAlike
<1> HIDE DEF m, n
<1>7. CallPlaces(I, m, again)
  <2>1. \A i \in 1..m : i \in 1..n
    BY <1>2, <1>6
  <2>2. I \in [1..m -> 1..n] /\ \A i \in 1..m : I[i] = i
    BY <2>1
  <2>3. ASSUME NEW j \in 1..n PROVE again.cards[j].key \in CallIds <=> \E i \in 1..m : I[i] = j
    <3>1. CASE j \in 1..m
      BY <1>3, <1>6, <2>2, <3>1
    <3>2. CASE j \notin 1..m
      <4>1. j > m
        BY <1>2, <3>2
      <4> QED BY <1>6, <2>2, <3>2, <4>1
    <3> QED BY <3>1, <3>2
  <2> HIDE DEF I
  <2> QED BY <2>2, <2>3 DEF CallPlaces, n
<1> HIDE DEF I
<1>8. CallCards(again) = [i \in 1..m |-> again.cards[I[i]]]
  BY <1>2, <1>7, CallCardsAre
<1>9. \A i \in 1..m : I[i] = i
  BY DEF I
<1>10. Len(CallCards(again)) = m /\ Len(CallCards(u)) = m /\ DOMAIN CallCards(u) = 1..m
  BY <1>2, <1>5, <1>8
<1>11. ASSUME NEW i \in 1..m, CallCards(u)[i].status # "running"
       PROVE  CallCards(again)[i].status = CallCards(u)[i].status /\ CallCards(again)[i].key = CallCards(u)[i].key
  <2>1. CallCards(u)[i] = u.cards[P[i]] /\ CallCards(again)[i] = again.cards[i]
    BY <1>5, <1>8, <1>9
  <2>2. M.cards[i].status = u.cards[P[i]].status
    BY <1>3, <1>11, <2>1 DEF TellsStatus
  <2> QED BY <1>3, <1>6, <2>1, <2>2
<1> QED BY <1>10, <1>11

\* Of a turn that has ended: what ReloadShowsTheTurn says of a screen that was
\* closed.
LEMMA ReloadTells ==
  ASSUME NEW n, n.additions \in Seq(TurnMessages), n.pending = <<>>,
         NEW events \in Seq(Drawables), NEW v, FitsScreen(v), AllFollow(events, v), NEW cl, NodeAgrees(n, v, cl),
         Own(Flat(AiTexts(n.additions))) = Own(Flat(v.texts)), Flat(v.texts) = cl.text,
         NEW phase, NEW u, u = Finalized(v, phase)
  PROVE  LET again == Hydrated(n.additions, events)
             sent == Replayed(n.additions) IN
         /\ Len(CallCards(again)) = Len(CallCards(u))
         /\ \A i \in DOMAIN CallCards(u) :
              CallCards(u)[i].status # "running" =>
                CallCards(again)[i].status = CallCards(u)[i].status /\ CallCards(again)[i].key = CallCards(u)[i].key
         /\ \A w \in Workers : Shows(again, w) = Shows(u, w)
         /\ Own(Flat(again.texts)) = Own(Flat(u.texts))
         /\ Flat(again.thoughts) = Flat(u.thoughts)
         /\ again.errors = u.errors
         /\ Own(sent.text) = Own(cl.text)
         /\ \A c \in CallIds : cl.card[c] \in {"failed", "completed"} => sent.card[c] = cl.card[c]
         /\ FitsScreen(again) /\ Marked(again)
<1> DEFINE all == n.additions
           M == DrawnOf(all)
           s0 == RunClosed(M)
           again == Hydrated(all, events)
           sent == Replayed(all)
<1>1. /\ M \in ToldScreens /\ Flat(M.texts) = Flat(AiTexts(all))
      /\ SentOf(all).text = Flat(AiTexts(all))
  BY AllTold
<1>2. OpenCalls(n.pending) = {}
  BY DEF OpenCalls
<1>3. Corresponds(M, {}, v) /\ ClientAgrees(SentOf(all), {}, cl)
  BY <1>2 DEF NodeAgrees
<1>4. sent = SentOf(all)
  BY SentFolds
<1>5. again = AgainOf(s0, events)
  <2>1. FoldLeft(MessageDrawn, Blank, all) = M
    BY ToldFolds
  <2>2. again = FoldLeft(Rehydrated, s0, events)
    BY <2>1, Zenon DEF Hydrated
  <2> QED BY <2>2, HydratedFolds
<1> HIDE DEF M, sent, again
<1>6. s0 \in Starts /\ s0.cards = M.cards /\ s0.texts = M.texts
  BY <1>1, <1>3, ToldStarts DEF Quiet
<1> HIDE DEF s0
<1>7. Follows(s0, again, v)
  BY <1>5, <1>6 DEF AllFollow
<1>8. /\ FitsScreen(u) /\ SameWords(v, u) /\ u.workers = v.workers /\ u.errors = v.errors
      /\ KeysKept(v, u)
      /\ phase = "completed" => u.cards = v.cards
      /\ phase # "completed" => SettledIn(v, u)
  BY FinalizedFits
<1>9. Corresponds(M, {}, u)
  <2>1. CASE phase = "completed"
    <3>1. u.cards = v.cards /\ u.card = v.card
      BY <1>8, <2>1 DEF KeysKept
    <3> QED BY <1>3, <3>1 DEF Corresponds, Corr, Matched, OpenMatched
  <2>2. CASE phase # "completed"
    BY <1>3, <1>8, <2>2, CorrSettled
  <2> QED BY <2>1, <2>2
<1>10. M \in Screens /\ u \in Screens /\ again \in Screens /\ CallsAlike(s0, again) /\ FitsScreen(again) /\ Marked(again)
  BY <1>1, <1>7, <1>8 DEF ToldScreens, FitsScreen, Follows
<1>11. /\ Len(CallCards(again)) = Len(CallCards(u))
       /\ \A i \in DOMAIN CallCards(u) :
            CallCards(u)[i].status # "running" =>
              CallCards(again)[i].status = CallCards(u)[i].status /\ CallCards(again)[i].key = CallCards(u)[i].key
  BY <1>6, <1>9, <1>10, CallsShownAgain
<1>12. ASSUME NEW w \in Workers PROVE Shows(again, w) = Shows(u, w)
  <2>1. again.workers = u.workers
    BY <1>7, <1>8 DEF Follows
  <2>2. again.card[w] = 0 <=> u.card[w] = 0
    BY <1>7, <1>8 DEF Follows, KeysKept
  <2>3. WorkersShown(again) /\ WorkersShown(u)
    BY <1>8, <1>10 DEF FitsScreen
  <2> QED BY <2>1, <2>2, <2>3 DEF WorkersShown, Shows
<1>13. Flat(again.texts) = Flat(AiTexts(all)) /\ u.texts = v.texts
  BY <1>1, <1>6, <1>7, <1>8 DEF Follows, SameWords
<1>14. Own(Flat(again.texts)) = Own(Flat(u.texts))
  BY <1>13
<1>15. Flat(again.thoughts) = Flat(u.thoughts) /\ again.errors = u.errors
  BY <1>7, <1>8 DEF Follows, SameWords
<1>16. Own(sent.text) = Own(cl.text)
  BY <1>1, <1>4
<1>17. \A c \in CallIds : cl.card[c] \in {"failed", "completed"} => sent.card[c] = cl.card[c]
  BY <1>3, <1>4 DEF ClientAgrees
<1>18. FitsScreen(again) /\ Marked(again)
  BY <1>10
<1> QED BY <1>11, <1>12, <1>14, <1>15, <1>16, <1>17, <1>18 DEF again, sent

\* No registered call runs on a screen that was settled.
LEMMA SettledShows ==
  ASSUME NEW v, FitsScreen(v), NEW u, KeysKept(v, u), SettledIn(v, u), NEW c \in CallIds
  PROVE  Shows(u, c) # "running"
<1>1. u.card[c] = v.card[c]
  BY DEF KeysKept
<1>2. CASE v.card[c] = 0
  BY <1>1, <1>2 DEF Shows
<1>3. CASE v.card[c] # 0
  <2>1. c \in Keys
    BY DEF Keys
  <2>2. v.card[c] \in 1..Len(v.cards)
    BY <1>3, <2>1 DEF FitsScreen, Registered
  <2>3. u.cards[v.card[c]].status # "running"
    BY <2>2 DEF SettledIn
  <2> QED BY <1>1, <1>3, <2>3 DEF Shows
<1> QED BY <1>2, <1>3

\* The end of the turn on the screen.
LEMMA ClosedIsFaithful ==
  ASSUME TurnInv, TaleInv, Together, end # "none", node.pending = <<>>, end = "cancelled" => stopAsked, CloseTurn
  PROVE  TranscriptIsFaithful'
<1> DEFINE u == Finalized(view, PhaseOf)
           all == node.additions
           again == Hydrated(all, recorded)
<1>1. /\ view' = u /\ UNCHANGED <<node, recorded, attempt, sequence, stopAsked, end, client>>
  BY DEF CloseTurn
<1>2. /\ FitsScreen(view) /\ Marked(view) /\ AllFollow(recorded, view) /\ NodeAgrees(node, view, client)
      /\ recorded \in Seq(Drawables) /\ Flat(view.texts) = Flat(StreamedOf(recorded)) /\ Flat(view.texts) = client.text
  BY DEF Together, Shared
<1>3. all \in Seq(TurnMessages) /\ Own(Flat(AiTexts(all))) = Own(Flat(view.texts))
  BY <1>2 DEF TurnInv, NodeWhole
<1> DEFINE sent == Replayed(all)
           phase == PhaseOf
<1>4. /\ Len(CallCards(again)) = Len(CallCards(u))
      /\ \A i \in DOMAIN CallCards(u) :
           CallCards(u)[i].status # "running" =>
             CallCards(again)[i].status = CallCards(u)[i].status /\ CallCards(again)[i].key = CallCards(u)[i].key
      /\ \A w \in Workers : Shows(again, w) = Shows(u, w)
      /\ Own(Flat(again.texts)) = Own(Flat(u.texts))
      /\ Flat(again.thoughts) = Flat(u.thoughts)
      /\ again.errors = u.errors
      /\ Own(sent.text) = Own(client.text)
      /\ \A c \in CallIds : client.card[c] \in {"failed", "completed"} => sent.card[c] = client.card[c]
      /\ FitsScreen(again) /\ Marked(again)
  <2> HIDE DEF phase
  <2>1. u = Finalized(view, phase)
    BY DEF phase
  <2> HIDE DEF u
  <2> QED BY <1>2, <1>3, <2>1, ReloadTells
<1>5. /\ FitsScreen(u) /\ u.errors = view.errors /\ KeysKept(view, u)
      /\ phase = "completed" => Marked(u)
      /\ phase # "completed" => SettledIn(view, u)
  BY <1>2, FinalizedFits
<1>6. view.errorRendered = (end = "failed")
  BY Zenon DEF TaleInv
<1>7. end \in {"failed", "cancelled"} => phase # "completed"
  BY <1>6 DEF PhaseOf
<1>8. end = "completed" /\ ~stopAsked => phase = "completed" /\ view.errors = 0
  BY <1>2, <1>6 DEF PhaseOf, FitsScreen
<1> HIDE DEF u, again, sent, phase
<1>9. end \in {"failed", "cancelled"} => \A c \in CallIds : Shows(u, c) # "running"
  BY <1>2, <1>5, <1>7, SettledShows
<1>10. end = "completed" /\ ~stopAsked => MarkedCards(u) /\ MarkedCards(again)
  BY <1>4, <1>5, <1>8 DEF Marked
<1>a. end = "completed" /\ ~stopAsked =>
        \A s \in {u, again} : \A i \in DOMAIN s.cards :
          (s.cards[i].key \in CallIds /\ s.cards[i].status \in {"error", "rejected"}) => s.runs[s.cards[i].run]
  <2>1. u.cards \in Seq(DrawnCards)
    BY <1>5 DEF FitsScreen, Screens
  <2>2. \A s : s.cards \in Seq(DrawnCards) => DOMAIN s.cards = 1..Len(s.cards)
    OBVIOUS
  <2>3. again.cards \in Seq(DrawnCards)
    BY <1>4 DEF FitsScreen, Screens
  <2> QED BY <1>10, <2>1, <2>2, <2>3 DEF MarkedCards
<1>11. ReloadShowsTheTurn'
  BY <1>1, <1>4 DEF ReloadShowsTheTurn, again, sent
<1>12. EndedCardsAreSettled'
  BY <1>1, <1>9, <1>a DEF EndedCardsAreSettled, again
<1> QED BY <1>11, <1>12 DEF TranscriptIsFaithful

----------------------------------------------------------------------------
(* The invariant *)

FaithInv ==
  /\ ~closed => Together
  /\ end # "none" => node.pending = <<>>
  /\ end = "cancelled" => stopAsked
  /\ closed => end # "none" /\ TranscriptIsFaithful

LEMMA FaithStarts == TranscriptInit => FaithInv
<1> SUFFICES ASSUME TranscriptInit PROVE FaithInv
  OBVIOUS
<1>1. /\ node = [additions |-> <<>>, text |-> <<>>, pending |-> <<>>] /\ recorded = <<>>
      /\ end = "none" /\ closed = FALSE /\ view = Blank /\ client = NewClient
  BY DEF TranscriptInit
<1>2. Blank \in ToldScreens /\ Flat(Blank.texts) = <<>>
  BY BlankTold
<1>3. FitsScreen(Blank) /\ Marked(Blank) /\ Blank \in Screens
  BY <1>2 DEF ToldScreens
<1>4. Flat(StreamedOf(<<>>)) = <<>>
  <2>1. DOMAIN StreamedOf(<<>>) = {}
    BY DEF StreamedOf
  <2>2. Joins!Fold(<<>>, StreamedOf(<<>>)) = <<>>
    BY <2>1, Joins!FoldEmpty
  <2> QED BY <2>2, FlatFolds
<1>5. NewClient \in Clients /\ NewClient.text = <<>> /\ \A c \in CallIds : NewClient.card[c] = "none"
  BY DEF NewClient, Clients, ClientCards, Keys, Text
<1>6. AllFollow(<<>>, Blank)
  <2> SUFFICES ASSUME NEW s0 \in Starts PROVE Follows(s0, AgainOf(s0, <<>>), Blank)
    BY DEF AllFollow
  <2>1. AgainOf(s0, <<>>) = s0
    <3>1. DOMAIN <<>> = {}
      OBVIOUS
    <3> QED BY <3>1, Rehydrations!FoldEmpty DEF AgainOf
  <2>2. /\ FitsScreen(s0) /\ Marked(s0) /\ s0.thoughts = <<>> /\ s0.errors = 0 /\ s0.workers = NoReports
        /\ s0 \in Screens /\ \A w \in Workers : s0.card[w] = 0
    BY DEF Starts
  <2>3. CallsAlike(s0, s0)
    <3>1. Len(s0.cards) \in Nat
      BY <2>2 DEF Screens
    <3> QED BY <3>1 DEF CallsAlike
  <2>4. Blank.thoughts = <<>> /\ Blank.errors = 0 /\ Blank.workers = NoReports /\ \A w \in Workers : Blank.card[w] = 0
    BY <1>2 DEF ToldScreens
  <2>5. Follows(s0, s0, Blank)
    BY <2>2, <2>3, <2>4 DEF Follows
  <2> QED BY <2>1, <2>5
<1>7. NodeAgrees(node, Blank, NewClient)
  <2>1. DrawnOf(node.additions) = Blank /\ SentOf(node.additions) = NewClient
    BY <1>1, NothingTold
  <2>2. OpenCalls(node.pending) = {}
    BY <1>1 DEF OpenCalls
  <2>3. Corresponds(Blank, {}, Blank)
    <3> DEFINE P == [i \in 1..Len(Blank.cards) |-> i]
    <3>1. Blank.cards = <<>> /\ Len(Blank.cards) = 0 /\ 1..0 = {}
      BY DEF Blank
    <3>2. 1..Len(Blank.cards) = {}
      BY <3>1
    <3>3. P \in [1..Len(Blank.cards) -> 1..Len(Blank.cards)]
      OBVIOUS
    <3> HIDE DEF P
    <3>4. Corr(P, Blank, {}, Blank)
      BY <3>2, <3>3 DEF Corr, Matched, OpenMatched
    <3> QED BY <3>4 DEF Corresponds
  <2>4. ClientAgrees(NewClient, {}, NewClient)
    BY <1>5 DEF ClientAgrees
  <2> QED BY <2>1, <2>2, <2>3, <2>4 DEF NodeAgrees
<1>8. Shared
  <2>1. recorded \in Seq(Drawables)
    BY <1>1
  <2> QED BY <1>1, <1>2, <1>3, <1>4, <1>5, <1>6, <2>1 DEF Shared
<1>9. Together
  BY <1>1, <1>7, <1>8 DEF Together
<1> QED BY <1>1, <1>9 DEF FaithInv

\* A step of a turn that is not closed, which has not ended before it or is not
\* changed by it.
LEMMA FaithGoesOn ==
  ASSUME ~closed, ~closed', Together', end' # "none" => node'.pending = <<>>, end' = "cancelled" => stopAsked'
  PROVE  FaithInv'
BY DEF FaithInv

LEMMA FaithKept ==
  ASSUME ~Numbered, TurnInv, TaleInv, FaithInv, [TranscriptNext]_transcriptVars PROVE FaithInv'
<1> USE TranscriptAssumption
<1>1. end = "none" => NodeSound(node) /\ ~closed /\ Together
  BY DEF TurnInv, FaithInv
<1>2. end = "none" => Shared /\ NodeAgrees(node, view, client) /\ FitsScreen(view)
  BY <1>1 DEF Together, Shared
\* An event, with what it does to the screen and the client.
<1>3. ASSUME NEW e \in Drawables, EmitEvent(e), end = "none"
      PROVE  /\ Shared' /\ FitsScreen(view') /\ CardsDrawn(view, e, view') /\ CardsSent(client, e, client')
             /\ e.type \in {"text", "reasoning", "worker", "final"} => NodeAgrees(node, view', client')
  <2>1. Shared' /\ CardsDrawn(view, e, view') /\ CardsSent(client, e, client')
    BY <1>2, <1>3, EventShared
  <2>2. FitsScreen(view')
    BY <2>1 DEF Shared
  <2>3. ASSUME e.type \in {"text", "reasoning", "worker", "final"} PROVE NodeAgrees(node, view', client')
    <3>1. CallsAlike(view, view')
      BY <2>1, <2>3 DEF CardsDrawn
    <3>2. \A c \in CallIds : client'.card[c] = client.card[c]
      BY <2>1, <2>3 DEF CardsSent
    <3> QED BY <1>1, <1>2, <1>3, <2>2, <3>1, <3>2, AlikeMatches
  <2> QED BY <2>1, <2>2, <2>3
\* A frame's event.
<1>4. ASSUME NEW type \in {"text", "reasoning", "request", "result", "worker"},
             NEW key \in Keys \cup {"none"}, NEW val \in Nat \cup Outcomes \cup Reports \cup {"none"},
             type = "text" => key = "none" /\ val \in Nat, type = "reasoning" => val \in Nat,
             type \in {"request", "result"} => key \in CallIds, type = "worker" => key \in Workers,
             NEW newFrame, Receive(type, key, val, newFrame)
      PROVE  /\ end = "none" /\ end' = "none" /\ closed' = closed /\ ~closed
             /\ \E e \in Drawables : e.type = type /\ e.key = key /\ e.val = val /\ EmitEvent(e)
  <2>1. PICK number : EmitEvent(FrameEvent(type, key, val, number))
    BY <1>4 DEF Receive
  <2>2. end = "none" /\ end' = end /\ closed' = closed
    BY <1>4 DEF Receive, FrameMayCome
  <2> DEFINE e == FrameEvent(type, key, val, number)
  <2>3. type \in {"text", "reasoning", "request", "result", "worker", "final", "error"}
    BY <1>4
  <2>4. e \in Drawables /\ e.type = type /\ e.key = key /\ e.val = val
    BY <1>4, <2>3, FrameDrawable
  <2>5. EmitEvent(e)
    BY <2>1
  <2> HIDE DEF e
  <2>6. ~closed
    BY <1>1, <2>2
  <2>7. \E d \in Drawables : d.type = type /\ d.key = key /\ d.val = val /\ EmitEvent(d)
    BY <2>4, <2>5
  <2> QED BY <2>2, <2>6, <2>7
<1>5. "none" \in Keys \cup {"none"} /\ "none" \in Nat \cup Outcomes \cup Reports \cup {"none"}
  OBVIOUS
<1>6. ASSUME NEW chunk \in {Chunk, Echo}, SpeakText(chunk) PROVE FaithInv'
  <2>1. Receive("text", "none", chunk, TRUE) /\ node' = Said(node, chunk)
    BY <1>6 DEF SpeakText
  <2>2. chunk \in Nat
    BY DEF Chunk, Echo, TurnInv
  <2>3. chunk \in Nat \cup Outcomes \cup Reports \cup {"none"}
    BY <2>2
  <2>4. /\ end = "none" /\ end' = "none" /\ closed' = closed /\ ~closed
        /\ \E e \in Drawables : e.type = "text" /\ e.key = "none" /\ e.val = chunk /\ EmitEvent(e)
    <3> DEFINE type == "text"
               key == "none"
               new == TRUE
    <3>1. type \in {"text", "reasoning", "request", "result", "worker"} /\ type \notin {"reasoning", "request", "result", "worker"}
      OBVIOUS
    <3>2. Receive(type, key, chunk, new) /\ key = "none" /\ key \in Keys \cup {"none"}
      BY <2>1
    <3> HIDE DEF type, key, new
    <3>3. /\ end = "none" /\ end' = "none" /\ closed' = closed /\ ~closed
          /\ \E e \in Drawables : e.type = type /\ e.key = key /\ e.val = chunk /\ EmitEvent(e)
      BY <1>4, <2>2, <2>3, <3>1, <3>2
    <3> QED BY <3>3 DEF type, key
  <2>5. PICK e \in Drawables : e.type = "text" /\ EmitEvent(e)
    BY <2>4
  <2>6. Shared' /\ NodeAgrees(node, view', client')
    BY <1>3, <2>4, <2>5
  <2>7. NodeAgrees(Said(node, chunk), view', client')
    BY <1>1, <2>4, <2>6, SaidMatches
  <2>8. Together'
    BY <2>1, <2>6, <2>7 DEF Together
  <2> QED BY <2>4, <2>8, FaithGoesOn
<1>7. ASSUME NEW newFrame \in Frames, Reason(newFrame) PROVE FaithInv'
  <2>1. Receive("reasoning", "none", Chunk, newFrame) /\ node' = node
    BY <1>7 DEF Reason
  <2>2. Chunk \in Nat
    BY DEF Chunk, TurnInv
  <2>3. Chunk \in Nat \cup Outcomes \cup Reports \cup {"none"}
    BY <2>2
  <2>4. /\ end = "none" /\ end' = "none" /\ closed' = closed /\ ~closed
        /\ \E e \in Drawables : e.type = "reasoning" /\ e.key = "none" /\ e.val = Chunk /\ EmitEvent(e)
    BY <1>4, <1>5, <2>1, <2>2, <2>3
  <2>5. PICK e \in Drawables : e.type = "reasoning" /\ EmitEvent(e)
    BY <2>4
  <2>6. Shared' /\ NodeAgrees(node, view', client')
    BY <1>3, <2>4, <2>5
  <2>7. Together'
    BY <2>1, <2>6 DEF Together
  <2> QED BY <2>4, <2>7, FaithGoesOn
<1>8. ASSUME NEW call \in CallIds, NEW newFrame \in Frames, RequestTool(call, newFrame) PROVE FaithInv'
  <2>1. Receive("request", call, "none", newFrame) /\ node' = Requested(node, call) /\ ~Contains(node.pending, call)
    BY <1>8 DEF RequestTool
  <2>2. call \in Keys \cup {"none"}
    BY DEF Keys
  <2>3. /\ end = "none" /\ end' = "none" /\ closed' = closed /\ ~closed
        /\ \E e \in Drawables : e.type = "request" /\ e.key = call /\ e.val = "none" /\ EmitEvent(e)
    <3> DEFINE type == "request"
               val == "none"
    <3>1. type \in {"text", "reasoning", "request", "result", "worker"} /\ type \notin {"text", "reasoning", "result", "worker"}
      OBVIOUS
    <3>2. Receive(type, call, val, newFrame) /\ val \in Nat \cup Outcomes \cup Reports \cup {"none"}
      BY <2>1
    <3> HIDE DEF type, val
    <3>3. /\ end = "none" /\ end' = "none" /\ closed' = closed /\ ~closed
          /\ \E e \in Drawables : e.type = type /\ e.key = call /\ e.val = val /\ EmitEvent(e)
      BY <1>4, <2>2, <3>1, <3>2
    <3> QED BY <3>3 DEF type, val
  <2>4. PICK e \in Drawables : e.type = "request" /\ e.key = call /\ EmitEvent(e)
    BY <2>3
  <2>5. Shared' /\ CardsDrawn(view, e, view') /\ CardsSent(client, e, client')
    BY <1>3, <2>3, <2>4
  <2>6. CardAdded(view, view', call)
    BY <2>4, <2>5 DEF CardsDrawn
  <2>7. client'.card[call] = "in_progress" /\ \A c \in CallIds : c # call => client'.card[c] = client.card[c]
    BY <2>4, <2>5 DEF CardsSent
  <2>8. NodeAgrees(Requested(node, call), view', client')
    BY <1>1, <1>2, <2>1, <2>3, <2>6, <2>7, RequestedMatches
  <2>9. Together'
    BY <2>1, <2>5, <2>8 DEF Together
  <2> QED BY <2>3, <2>9, FaithGoesOn
<1>9. ASSUME NEW call \in CallIds, NEW outcome \in Outcomes, AnswerTool(call, outcome) PROVE FaithInv'
  <2>1. Receive("result", call, outcome, FALSE) /\ node' = Answered(node, call, outcome) /\ Contains(node.pending, call)
    BY <1>9 DEF AnswerTool
  <2>3. /\ end = "none" /\ end' = "none" /\ closed' = closed /\ ~closed
        /\ \E e \in Drawables : e.type = "result" /\ e.key = call /\ e.val = outcome /\ EmitEvent(e)
    <3>1. end = "none" /\ end' = end /\ closed' = closed
      BY <2>1 DEF Receive, FrameMayCome
    <3>2. PICK number : EmitEvent(FrameEvent("result", call, outcome, number))
      BY <2>1 DEF Receive
    <3> DEFINE e == FrameEvent("result", call, outcome, number)
    <3>3. e \in Drawables /\ e.type = "result" /\ e.key = call /\ e.val = outcome
      BY ResultDrawable
    <3>4. EmitEvent(e)
      BY <3>2
    <3> HIDE DEF e
    <3>5. ~closed
      BY <1>1, <3>1
    <3> QED BY <3>1, <3>3, <3>4, <3>5
  <2>4. PICK e \in Drawables : e.type = "result" /\ e.key = call /\ e.val = outcome /\ EmitEvent(e)
    BY <2>3
  <2>5. Shared' /\ CardsDrawn(view, e, view') /\ CardsSent(client, e, client')
    BY <1>3, <2>3, <2>4
  <2>6. AnsweredIn(view, view', call, Status(outcome))
    BY <2>4, <2>5 DEF CardsDrawn
  <2>7. client'.card[call] = Outcome(outcome) /\ \A c \in CallIds : c # call => client'.card[c] = client.card[c]
    BY <2>4, <2>5 DEF CardsSent
  <2>8. NodeAgrees(Answered(node, call, outcome), view', client')
    BY <1>1, <1>2, <2>1, <2>3, <2>6, <2>7, AnsweredMatches
  <2>9. Together'
    BY <2>1, <2>5, <2>8 DEF Together
  <2> QED BY <2>3, <2>9, FaithGoesOn
<1>10. ASSUME NEW w \in Workers, NEW report \in Reports, NEW newFrame \in Frames, ReportWorker(w, report, newFrame)
       PROVE  FaithInv'
  <2>1. Receive("worker", w, report, newFrame) /\ node' = node
    BY <1>10 DEF ReportWorker
  <2>2. w \in Keys \cup {"none"} /\ report \in Nat \cup Outcomes \cup Reports \cup {"none"}
    BY DEF Keys
  <2>3. /\ end = "none" /\ end' = "none" /\ closed' = closed /\ ~closed
        /\ \E e \in Drawables : e.type = "worker" /\ e.key = w /\ e.val = report /\ EmitEvent(e)
    BY <1>4, <2>1, <2>2
  <2>4. PICK e \in Drawables : e.type = "worker" /\ EmitEvent(e)
    BY <2>3
  <2>5. Shared' /\ NodeAgrees(node, view', client')
    BY <1>3, <2>3, <2>4
  <2>6. Together'
    BY <2>1, <2>5 DEF Together
  <2> QED BY <2>3, <2>6, FaithGoesOn
<1>11. ASSUME NEW continued \in BOOLEAN, FinalFrame(continued) PROVE FaithInv'
  <2> DEFINE e == FrameEvent("final", "none", "none", sequence + 1)
  <2>1. EmitEvent(e) /\ end = "none" /\ closed' = closed /\ node.pending = <<>>
    BY <1>11 DEF FinalFrame, FrameMayCome
  <2>2. e \in Drawables /\ e.type = "final"
    <3> DEFINE type == "final"
               none == "none"
               number == sequence + 1
    <3>1. /\ type \in {"text", "reasoning", "request", "result", "worker", "final", "error"}
          /\ type \notin {"text", "reasoning", "request", "result", "worker"}
      OBVIOUS
    <3>2. none \in Keys \cup {"none"} /\ none \in Nat \cup Outcomes \cup Reports \cup {"none"}
      OBVIOUS
    <3> HIDE DEF type, none, number
    <3>3. FrameEvent(type, none, none, number) \in Drawables /\ FrameEvent(type, none, none, number).type = type
      BY <3>1, <3>2, FrameDrawable
    <3> QED BY <3>3 DEF type, none, number
  <2> HIDE DEF e
  <2>3. Shared' /\ FitsScreen(view') /\ NodeAgrees(node, view', client')
    BY <1>3, <2>1, <2>2
  <2>4. CASE continued
    <3>1. node' = node /\ end' = end
      BY <1>11, <2>4 DEF FinalFrame
    <3>2. Together'
      BY <2>3, <3>1 DEF Together
    <3>3. ~closed /\ ~closed' /\ end' = "none"
      BY <1>1, <2>1, <3>1
    <3> QED BY <3>2, <3>3, FaithGoesOn
  <2>5. CASE ~continued
    <3>1. node' = Result(node, HasContext) /\ end' = "completed"
      BY <1>11, <2>5 DEF FinalFrame
    <3> DEFINE hidden == HasContext
    <3>2. node' = Result(node, hidden)
      BY <3>1
    <3> HIDE DEF hidden
    <3>3. NodeAgrees(Result(node, hidden), view', client') /\ Result(node, hidden).pending = <<>>
      BY <1>1, <2>1, <2>3, ResultMatches
    <3>4. Together' /\ node'.pending = <<>>
      BY <2>3, <3>2, <3>3 DEF Together
    <3>5. ~closed /\ ~closed' /\ end' # "cancelled"
      BY <1>1, <2>1, <3>1
    <3> QED BY <3>4, <3>5, FaithGoesOn
  <2> QED BY <2>4, <2>5
<1>12. ASSUME NEW onFinal \in BOOLEAN, ResumeAttempt(onFinal) PROVE FaithInv'
  <2>1. /\ end = "none" /\ end' = "none" /\ closed' = closed
        /\ node' = CallsSettled(IF onFinal THEN WithoutEcho(node) ELSE node)
        /\ recorded' = recorded /\ view' = view /\ client' = client
    BY <1>12 DEF ResumeAttempt, FrameMayCome, Broken
  <2> DEFINE n == CallsSettled(IF onFinal THEN WithoutEcho(node) ELSE node)
  <2>2. n = CallsSettled(IF onFinal THEN WithoutEcho(node) ELSE node) /\ node' = n
    BY <2>1
  <2> HIDE DEF n
  <2>3. NodeAgrees(n, view, client)
    BY <1>1, <1>2, <2>1, <2>2, BrokenMatches
  <2>4. Together'
    BY <1>2, <2>1, <2>2, <2>3 DEF Together, Shared
  <2>5. ~closed /\ ~closed'
    BY <1>1, <2>1
  <2> QED BY <2>1, <2>4, <2>5, FaithGoesOn
<1>13. ASSUME NEW onFinal \in BOOLEAN, GiveUp(onFinal) PROVE FaithInv'
  <2> DEFINE e == FrameEvent("error", "none", "none", NoSequence)
             n == CallsSettled(IF onFinal THEN WithoutEcho(node) ELSE node)
             m == Result(n, TRUE)
  <2>1. EmitEvent(e) /\ end = "none" /\ end' = "failed" /\ closed' = closed /\ node' = m
    BY <1>13 DEF GiveUp, FrameMayCome, Broken
  <2>2. e \in Drawables /\ e.type = "error"
    BY <1>5, FrameDrawable
  <2>3. n = CallsSettled(IF onFinal THEN WithoutEcho(node) ELSE node)
    OBVIOUS
  <2> HIDE DEF e, n
  <2>4. NodeAgrees(n, view, client) /\ NodeSound(n)
    BY <1>1, <1>2, <2>1, <2>3, BrokenMatches, BrokenKeeps
  <2>5. NodeAgrees(m, view, client) /\ m.pending = <<>>
    BY <1>2, <2>1, <2>4, ResultMatches
  <2> HIDE DEF m
  <2>6. Shared' /\ CardsDrawn(view, e, view') /\ CardsSent(client, e, client')
    BY <1>3, <2>1, <2>2
  <2>7. KeysKept(view, view') /\ SettledIn(view, view')
    BY <2>2, <2>6 DEF CardsDrawn
  <2>8. \A c \in CallIds : client'.card[c] = client.card[c]
    BY <2>2, <2>6 DEF CardsSent
  <2>9. OpenCalls(m.pending) = {}
    BY <2>5 DEF OpenCalls
  <2>10. Corresponds(DrawnOf(m.additions), {}, view) /\ ClientAgrees(SentOf(m.additions), {}, client)
    BY <2>5, <2>9 DEF NodeAgrees
  <2>11. Corresponds(DrawnOf(m.additions), {}, view')
    BY <2>7, <2>10, CorrSettled
  <2>12. ClientAgrees(SentOf(m.additions), {}, client')
    BY <2>8, <2>10 DEF ClientAgrees
  <2>13. NodeAgrees(m, view', client')
    BY <2>9, <2>11, <2>12 DEF NodeAgrees
  <2>14. Together' /\ node'.pending = <<>>
    BY <2>1, <2>5, <2>6, <2>13 DEF Together
  <2>15. ~closed /\ ~closed' /\ end' # "cancelled"
    BY <1>1, <2>1
  <2> QED BY <2>14, <2>15, FaithGoesOn
<1>14. CASE AskCancel
  <2>1. /\ end = "none" /\ end' = "none" /\ closed' = closed /\ node' = node
        /\ recorded' = recorded /\ view' = view /\ client' = client
    BY <1>14 DEF AskCancel
  <2>2. Together'
    BY <1>2, <2>1 DEF Together, Shared
  <2>3. ~closed /\ ~closed'
    BY <1>1, <2>1
  <2> QED BY <2>1, <2>2, <2>3, FaithGoesOn
<1>15. CASE StopCancelled
  <2> DEFINE n == CallsSettled(IF FALSE THEN WithoutEcho(node) ELSE node)
             m == Result(n, TRUE)
  <2>1. /\ end = "none" /\ end' = "cancelled" /\ stopAsked /\ stopAsked' = stopAsked /\ closed' = closed /\ node' = m
        /\ recorded' = recorded /\ view' = view /\ client' = client
    BY <1>15 DEF StopCancelled, Broken
  <2>2. n = CallsSettled(IF FALSE THEN WithoutEcho(node) ELSE node)
    OBVIOUS
  <2> HIDE DEF n
  <2>3. NodeAgrees(n, view, client) /\ NodeSound(n)
    BY <1>1, <1>2, <2>1, <2>2, BrokenMatches, BrokenKeeps
  <2>4. NodeAgrees(m, view, client) /\ m.pending = <<>>
    BY <1>2, <2>1, <2>3, ResultMatches
  <2> HIDE DEF m
  <2>5. Together' /\ node'.pending = <<>>
    BY <1>2, <2>1, <2>4 DEF Together, Shared
  <2>6. ~closed /\ ~closed' /\ stopAsked'
    BY <1>1, <2>1
  <2> QED BY <2>5, <2>6, FaithGoesOn
<1>16. CASE CloseTurn
  <2>1. end # "none" /\ ~closed /\ closed' = TRUE /\ node' = node /\ end' = end /\ stopAsked' = stopAsked
    BY <1>16 DEF CloseTurn
  <2>2. Together /\ node.pending = <<>> /\ (end = "cancelled" => stopAsked)
    BY <2>1 DEF FaithInv
  <2>3. TranscriptIsFaithful'
    BY <1>16, <2>1, <2>2, ClosedIsFaithful
  <2> QED BY <2>1, <2>2, <2>3 DEF FaithInv
<1>17. CASE UNCHANGED transcriptVars
  <2>1. /\ node' = node /\ recorded' = recorded /\ stopAsked' = stopAsked /\ end' = end
        /\ view' = view /\ client' = client /\ closed' = closed
    BY <1>17 DEF transcriptVars
  <2>2. Together => Together'
    BY <2>1 DEF Together, Shared
  <2>3. TranscriptIsFaithful => TranscriptIsFaithful'
    BY <2>1 DEF TranscriptIsFaithful, ReloadShowsTheTurn, EndedCardsAreSettled
  <2> QED BY <2>1, <2>2, <2>3 DEF FaithInv
<1> QED BY <1>6, <1>7, <1>8, <1>9, <1>10, <1>11, <1>12, <1>13, <1>14, <1>15, <1>16, <1>17 DEF TranscriptNext

\* A chat that is opened again shows the turn as it was left, on the screen and to
\* an ACP client; a turn that failed or was cancelled leaves no call running, and
\* one that completed keeps its failed calls in runs marked as failed.  For any
\* calls, workers, outcomes, reports and number of events and attempts
\* (_custom_event, _hydrate, _emit, replay_updates, _finalize_turn).  Of frames
\* without a number: with numbers the terminal may refuse an event that the node
\* has folded.
THEOREM TurnIsShownAgain == ASSUME ~Numbered PROVE TranscriptSpec => []TranscriptIsFaithful
<1>1. FaithInv => TranscriptIsFaithful
  <2> SUFFICES ASSUME FaithInv, ~closed PROVE TranscriptIsFaithful
    BY DEF FaithInv
  <2> QED BY DEF TranscriptIsFaithful, ReloadShowsTheTurn, EndedCardsAreSettled
<1>2. TurnInv /\ TaleInv /\ FaithInv /\ [TranscriptNext]_transcriptVars => TurnInv' /\ TaleInv' /\ FaithInv'
  BY TurnKept, TaleKept, FaithKept
<1> QED BY <1>1, <1>2, TurnStarts, TaleStarts, FaithStarts, PTL DEF TranscriptSpec

=============================================================================

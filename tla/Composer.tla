------------------------------ MODULE Composer ------------------------------
(***************************************************************************)
(* What the terminal does with a key and with a piece of an answer         *)
(* (copper_widgets.py): the composer with its list of completions and its  *)
(* history, the panel of side answers, the approval menu, and the widget   *)
(* an answer is drawn in.                                                  *)
(*                                                                         *)
(* The text area and the composer around it handle their messages in tasks *)
(* of their own: a key reaches the text area first and the composer, when  *)
(* the text area has no use for it, after whatever it was told before.     *)
(***************************************************************************)
EXTENDS Naturals, FiniteSets, SequencesExt

CONSTANTS
    Tokens,      \* what stands between two blanks of the text
    Typed,       \* those the user types
    KindOf,      \* "slash", "file" or "none", by the first character
    Finds,       \* the names of entries a token matches
    Folders,     \* projects
    Contents,    \* the paths in a folder, as entries
    MaxKeys,     \* bound: keys pressed
    MaxMoves,    \* bound: changes of the project folder
    MaxPieces    \* bound: pieces of an answer

NoFolder == "no folder"

ASSUME ComposerAssumption ==
    /\ "" \in Tokens /\ Typed \subseteq Tokens \ {""}
    /\ KindOf \in [Tokens -> {"slash", "file", "none"}] /\ KindOf[""] = "none"
    /\ NoFolder \notin Folders
    /\ Finds \in [Tokens -> SUBSET Tokens]
    /\ Contents \in [Folders -> SUBSET Tokens]
    /\ {MaxKeys, MaxMoves, MaxPieces} \subseteq Nat

VARIABLES
    text,       \* the tokens in the text area, "" after a trailing blank
    focus,      \* "area", "panel" or "menu"
    areaQueue,  \* messages for the text area
    inputQueue, \* messages for the composer
    offer,      \* the list of completions
    timer,      \* the list is filtered when the user pauses
    index,      \* the paths of the folder, once known
    build,      \* the folder that is being read, in a thread
    folder,     \* self.cwd
    past,       \* history, and where up and down are in it
    sent,       \* what was submitted
    pressed,    \* keys pressed, by the widget that had the focus
    moves,      \* changes of the folder
    misfit,     \* history: a completion was accepted that is no match
    menu,       \* the approval menu
    answer      \* an answer: its pieces, those drawn, the timer and the flush

composerVars == <<text, focus, areaQueue, inputQueue, offer, timer, index, build,
                  folder, past, sent, pressed, moves, misfit, menu, answer>>
lists == <<offer, timer, index, build, folder, moves, misfit>>

Unread == [read |-> FALSE]
Empty == [kind |-> "none", matches |-> {}, selected |-> "", closed |-> FALSE]

\* Keys the list takes while it is open.
ListKeys == {"up", "down", "tab", "enter", "space", "escape"}

Token(words) == IF words = <<>> THEN "" ELSE Last(words)
Words(words) == SelectSeq(words, LAMBDA word : word # "")

Changed == [type |-> "changed", value |-> <<>>, settled |-> TRUE]
Said(value) == [type |-> "submitted", value |-> value, settled |-> TRUE]

\* The text is set, and the text area is told that it changed.
Writes(words, queue) ==
    /\ text' = words
    /\ areaQueue' = queue \o <<Changed>>

----------------------------------------------------------------------------
(* The list of completions *)

Matching(token, paths) ==
    CASE KindOf[token] = "slash" -> Finds[token]
      [] KindOf[token] = "file" -> IF paths.read THEN Finds[token] \cap paths.files ELSE {}
      [] OTHER -> {}

\* The lists _refresh_completions may leave: the one there is, when it is the same.
Refreshed(token, paths) ==
    LET found == Matching(token, paths)
        kind == KindOf[token]
        same == \/ found = {} /\ offer.matches = {}
                \/ kind = offer.kind /\ found = offer.matches IN
    IF same THEN {[offer EXCEPT !.kind = kind, !.closed = FALSE]}
    ELSE {[kind |-> kind, matches |-> found, selected |-> one, closed |-> FALSE] :
             one \in IF found = {} THEN {""} ELSE found}

ClosedList == [Empty EXCEPT !.closed = TRUE]

IndexIsCurrent == index.read /\ index.fresh

\* _start_file_index; a folder is read once at a time, and set_cwd reads anew.
StartsIndex(kind) ==
    build' = IF kind = "file" /\ build = NoFolder /\ ~IndexIsCurrent THEN folder ELSE build

\* changed.
Notices ==
    LET token == Token(text)
        kind == KindOf[token] IN
    /\ StartsIndex(kind)
    /\ IF kind = "file" /\ index.read
       THEN timer' = TRUE /\ UNCHANGED offer
       ELSE timer' = FALSE /\ offer' \in Refreshed(token, index)
    /\ UNCHANGED <<index, folder, moves, misfit>>

\* MUTANT: the list is moved and accepted as it stands.
Flushed_AsItStands(type) == {offer}

\* flush_pending_completion.
Flushed(type) == IF type \in ListKeys /\ timer THEN Refreshed(Token(text), index) ELSE {offer}

TimerFires ==
    /\ timer
    /\ timer' = FALSE
    /\ offer' \in Refreshed(Token(text), index)
    /\ UNCHANGED <<text, focus, areaQueue, inputQueue, index, build, folder, past, sent,
                   pressed, moves, misfit, menu, answer>>

\* build: os.walk passes over what it cannot read, so that a build ends with an index.
BuildEnds ==
    /\ build # NoFolder
    /\ LET paths == [read |-> TRUE, files |-> Contents[build], fresh |-> TRUE] IN
       /\ index' = paths
       /\ IF KindOf[Token(text)] = "file"
          THEN offer' \in Refreshed(Token(text), paths)
          ELSE UNCHANGED offer
    /\ build' = NoFolder
    /\ UNCHANGED <<text, focus, areaQueue, inputQueue, timer, folder, past, sent, pressed,
                   moves, misfit, menu, answer>>

\* FILE_INDEX_TTL has passed.
IndexAges ==
    /\ IndexIsCurrent
    /\ index' = [index EXCEPT !.fresh = FALSE]
    /\ UNCHANGED <<text, focus, areaQueue, inputQueue, offer, timer, build, folder, past,
                   sent, pressed, moves, misfit, menu, answer>>

\* The worker group is exclusive: an earlier build is dropped.
SetCwd(new) ==
    /\ moves < MaxMoves /\ new # folder
    /\ moves' = moves + 1
    /\ folder' = new /\ index' = Unread /\ build' = new
    /\ UNCHANGED <<text, focus, areaQueue, inputQueue, offer, timer, past, sent, pressed,
                   misfit, menu, answer>>

----------------------------------------------------------------------------
(* Keys: the text area first, then the composer *)

Unheard(queue) == \E i \in DOMAIN queue : queue[i].type = "changed"

Press(type, value) ==
    /\ focus = "area" /\ pressed < MaxKeys
    /\ pressed' = pressed + 1
    /\ areaQueue' = Append(areaQueue, [type |-> type, value |-> value, settled |-> FALSE])
    /\ UNCHANGED <<text, focus, inputQueue, offer, timer, index, build, folder, past, sent,
                   moves, misfit, menu, answer>>

ToInput(message, rest) ==
    /\ inputQueue' = Append(inputQueue,
           [message EXCEPT !.settled = ~Unheard(rest) /\ ~Unheard(inputQueue)])
    /\ areaQueue' = rest
    /\ UNCHANGED <<text, past>>

\* submit; blanks alone are not submitted.
Submits(words, rest) ==
    IF Words(words) = <<>> THEN text' = words /\ areaQueue' = rest
    ELSE text' = <<>> /\ areaQueue' = rest \o <<Changed, Said(Words(words))>>

\* Up and down, in a text of one line.
Recall(step, rest) ==
    LET at == IF step = "up" THEN IF past.at = 0 THEN 0 ELSE past.at - 1
              ELSE IF past.at < Len(past.lines) THEN past.at + 1 ELSE past.at IN
    /\ past' = [past EXCEPT !.at = at]
    /\ Writes(IF at < Len(past.lines) THEN past.lines[at + 1] ELSE <<>>, rest)

Types(token, rest) ==
    Writes((IF text = <<>> THEN <<>> ELSE Front(text)) \o <<token>>, rest)

\* ComposerTextArea._on_key.
AreaKey(message, rest) ==
    /\ offer' \in Flushed(message.type)
    /\ timer' = (timer /\ message.type \notin ListKeys)
    /\ IF offer'.matches # {} /\ message.type \in ListKeys THEN ToInput(message, rest)
       ELSE \/ /\ message.type = "enter" /\ Submits(text, rest)
               /\ UNCHANGED <<inputQueue, past>>
            \/ /\ message.type \in {"up", "down"} /\ past.lines # <<>>
               /\ Recall(message.type, rest) /\ UNCHANGED inputQueue
            \/ /\ message.type = "type" /\ Types(message.value[1], rest)
               /\ UNCHANGED <<inputQueue, past>>
            \/ /\ message.type = "space" /\ Writes(text \o <<"">>, rest)
               /\ UNCHANGED <<inputQueue, past>>
            \/ /\ \/ message.type \in {"tab", "escape"}
                  \/ message.type \in {"up", "down"} /\ past.lines = <<>>
               /\ ToInput(message, rest)

\* What the text area posts to itself bubbles up to the composer.
AreaTakes ==
    /\ areaQueue # <<>>
    /\ LET message == Head(areaQueue) IN
       IF message.type \in {"changed", "submitted"}
       THEN /\ inputQueue' = Append(inputQueue, message) /\ areaQueue' = Tail(areaQueue)
            /\ UNCHANGED <<text, past, offer, timer>>
       ELSE AreaKey(message, Tail(areaQueue))
    /\ UNCHANGED <<focus, index, build, folder, sent, pressed, moves, misfit, menu, answer>>

Completed(blank) ==
    (IF text = <<>> THEN <<>> ELSE Front(text)) \o <<offer.selected>>
        \o (IF blank THEN <<"">> ELSE <<>>)

\* _apply_completion; a completed command is submitted at once by Enter.
Accepts(message, rest) ==
    LET slash == offer.kind = "slash" /\ message.type = "enter"
        known == message.settled /\ ~Unheard(rest) /\ ~Unheard(areaQueue) /\ build = NoFolder IN
    /\ misfit' = (misfit \/ (known /\ offer.selected \notin Matching(Token(text), index)))
    /\ IF slash THEN Submits(Completed(FALSE), Append(areaQueue, Changed))
       ELSE Writes(Completed(TRUE), areaQueue)
    /\ offer' = ClosedList
    /\ focus' = "area"

\* ChatInput.on_key.
InputKey(message, rest) ==
    LET matches == offer.matches
        type == message.type
        accepts == type \in {"enter", "tab"} \/ (type = "space" /\ offer.kind = "slash") IN
    /\ \/ /\ matches # {} /\ type \in {"up", "down"}
          /\ \E one \in matches :
                /\ Cardinality(matches) > 1 => one # offer.selected
                /\ offer' = [offer EXCEPT !.selected = one]
          /\ UNCHANGED <<text, areaQueue, focus, misfit>>
       \/ /\ matches # {} /\ type = "escape"
          /\ offer' = ClosedList
          /\ UNCHANGED <<text, areaQueue, focus, misfit>>
       \/ /\ matches # {} /\ accepts
          /\ Accepts(message, rest)
       \/ /\ matches # {} /\ type = "space" /\ ~accepts
          /\ Writes(text \o <<"">>, areaQueue)
          /\ UNCHANGED <<offer, focus, misfit>>
       \/ /\ matches = {}
          /\ UNCHANGED <<text, areaQueue, offer, focus, misfit>>
    /\ UNCHANGED <<timer, index, build, folder, moves, past, sent>>

\* text_submitted; the lines read back at the start are the last 500.
Remembers(value) ==
    LET lines == Append(past.lines, value) IN
    /\ past' = [lines |-> lines, at |-> Len(lines)]
    /\ sent' = Append(sent, value)

InputTakes ==
    /\ inputQueue # <<>>
    /\ LET message == Head(inputQueue) IN
       \/ /\ message.type = "changed" /\ Notices
          /\ UNCHANGED <<text, areaQueue, focus, past, sent>>
       \/ /\ message.type = "submitted" /\ Remembers(message.value)
          /\ UNCHANGED <<text, areaQueue, focus, lists>>
       \/ /\ message.type \notin {"changed", "submitted"}
          /\ InputKey(message, Tail(inputQueue))
    /\ inputQueue' = Tail(inputQueue)
    /\ UNCHANGED <<pressed, menu, answer>>

----------------------------------------------------------------------------
(* The panel of side answers and the approval menu *)

NoMenu == [open |-> FALSE]

\* A command outside of the workspace is asked about every time.
Options(outside) == IF outside THEN <<"approve", "reject">> ELSE <<"approve", "auto", "reject">>

unmoved == <<inputQueue, lists, past, sent, answer>>

\* /btw opens the panel; a printable key it has no use for is typed through.
PanelOpens ==
    /\ focus = "area" /\ areaQueue = <<>>
    /\ focus' = "panel"
    /\ UNCHANGED <<unmoved, text, areaQueue, pressed, menu>>

PanelKey ==
    /\ focus = "panel" /\ pressed < MaxKeys
    /\ pressed' = pressed + 1
    /\ focus' = "area"
    /\ \/ UNCHANGED <<text, areaQueue>>
       \/ \E token \in Typed : Types(token, areaQueue)
    /\ UNCHANGED <<unmoved, menu>>

\* The menu waits for a pause in the typing, but no longer than five seconds, and
\* then takes the focus; keys that were pressed before are the text area's.
MenuOpens(outside) ==
    /\ ~menu.open /\ focus = "area"
    /\ menu' = [open |-> TRUE, outside |-> outside, at |-> 1, reason |-> FALSE,
                decided |-> "nothing"]
    /\ focus' = "menu"
    /\ UNCHANGED <<unmoved, text, areaQueue, pressed>>

Decide(decision) == menu' = [menu EXCEPT !.decided = decision]

MenuKey(key) ==
    LET options == Options(menu.outside) IN
    /\ menu.open /\ focus = "menu" /\ menu.decided = "nothing" /\ pressed < MaxKeys
    /\ pressed' = pressed + 1
    /\ IF menu.reason
       THEN \/ key = "enter" /\ menu' = [menu EXCEPT !.reason = FALSE, !.decided = "reject"]
            \/ key = "escape" /\ menu' = [menu EXCEPT !.reason = FALSE]
       ELSE \/ key \in {"up", "down"}
               /\ \E at \in DOMAIN options \ {menu.at} : menu' = [menu EXCEPT !.at = at]
            \/ key = "enter" /\ Decide(options[menu.at])
            \/ key \in {"1", "2", "3"}
               /\ LET at == CASE key = "1" -> 1 [] key = "2" -> 2 [] OTHER -> 3 IN
                  at \in DOMAIN options /\ Decide(options[at])
            \/ key = "y" /\ Decide("approve")
            \/ key = "a" /\ "auto" \in Range(options) /\ Decide("auto")
            \/ key \in {"n", "escape"} /\ Decide("reject")
            \/ key = "tab" /\ menu' = [menu EXCEPT !.reason = TRUE, !.at = Len(options)]
    /\ UNCHANGED <<unmoved, text, areaQueue, focus>>

\* request_approval has its answer: the menu is removed.
MenuCloses ==
    /\ menu.open /\ menu.decided # "nothing"
    /\ menu' = NoMenu /\ focus' = "area"
    /\ UNCHANGED <<unmoved, text, areaQueue, pressed>>

----------------------------------------------------------------------------
(* An answer that streams in: AssistantMessage *)

NoFlush == [appends |-> FALSE, target |-> 0]

\* stream_append_safe: Markdown.append rewrites a block that is still open.
AppendSafe(drawn) == drawn > 0 /\ answer.pieces[drawn] = "open"

AppendContent(ends) ==
    /\ Len(answer.pieces) < MaxPieces
    /\ answer' = [answer EXCEPT !.pieces = Append(@, ends), !.timer = TRUE]

FlushDue ==
    /\ answer.timer
    /\ answer' = [answer EXCEPT !.timer = FALSE, !.waiting = @ + 1]

StopStream ==
    /\ answer.waiting < 2
    /\ answer' = [answer EXCEPT !.timer = FALSE, !.waiting = @ + 1]

\* Under the lock; nothing to draw is drawn by nobody.
FlushStarts ==
    /\ answer.waiting > 0 /\ answer.flush = NoFlush
    /\ answer' = [answer EXCEPT !.waiting = @ - 1,
           !.flush = IF answer.drawn = Len(answer.pieces) THEN NoFlush
                     ELSE [appends |-> AppendSafe(answer.drawn), target |-> Len(answer.pieces)]]

FlushEnds ==
    /\ answer.flush # NoFlush
    /\ answer' = [answer EXCEPT !.flush = NoFlush, !.drawn = answer.flush.target,
           !.erased = @ \/ (answer.flush.appends /\ answer.pieces[answer.drawn] = "closed")]

AnswerNext ==
    /\ \/ \E ends \in {"open", "closed"} : AppendContent(ends)
       \/ FlushDue \/ StopStream \/ FlushStarts \/ FlushEnds
    /\ UNCHANGED <<text, focus, areaQueue, inputQueue, lists, past, sent, pressed, menu>>

----------------------------------------------------------------------------

ComposerInit ==
    /\ text = <<>> /\ focus = "area" /\ areaQueue = <<>> /\ inputQueue = <<>>
    /\ offer = Empty /\ timer = FALSE /\ index = Unread
    /\ folder \in Folders
    /\ build = folder
    /\ past = [lines |-> <<>>, at |-> 0] /\ sent = <<>>
    /\ pressed = 0 /\ moves = 0 /\ misfit = FALSE
    /\ menu = NoMenu
    /\ answer = [pieces |-> <<>>, drawn |-> 0, timer |-> FALSE, waiting |-> 0,
                 flush |-> NoFlush, erased |-> FALSE]

ComposerNext ==
    \/ \E key \in ListKeys : Press(key, <<>>)
    \/ \E token \in Typed : Press("type", <<token>>)
    \/ AreaTakes \/ InputTakes
    \/ TimerFires \/ BuildEnds \/ IndexAges
    \/ \E new \in Folders : SetCwd(new)
    \/ PanelOpens \/ PanelKey \/ MenuCloses
    \/ \E outside \in BOOLEAN : MenuOpens(outside)
    \/ \E key \in {"up", "down", "enter", "1", "2", "3", "y", "a", "n", "escape", "tab"} :
          MenuKey(key)

ComposerSpec == ComposerInit /\ [][ComposerNext \/ AnswerNext]_composerVars

----------------------------------------------------------------------------

\* Nothing is on its way to the composer.
Settled ==
    /\ areaQueue = <<>> /\ inputQueue = <<>> /\ ~timer /\ build = NoFolder
    /\ ~offer.closed

\* Once the composer has seen what was typed, its list is that of the token under
\* the cursor in the folder of the project, whatever was typed, read and switched
\* while it was filtered; and no key that is pressed then accepts an entry that
\* does not match (changed, flush_pending_completion, _start_file_index).
CompletionsFit ==
    /\ ~misfit
    /\ Settled => offer.matches = Matching(Token(text), index)

\* A decision is one the menu offers: Auto is none for a request outside of the
\* workspace, on any path (_decide).
DecisionIsOffered ==
    menu.open /\ menu.decided # "nothing" => menu.decided \in Range(Options(menu.outside))

\* An answer is on screen in full once nothing more is due, and no block that was
\* closed is overwritten (_flush, stream_append_safe).
AnswerIsDrawn ==
    /\ ~answer.erased
    /\ ~answer.timer /\ answer.waiting = 0 /\ answer.flush = NoFlush =>
          answer.drawn = Len(answer.pieces)

\* Up and down stay within the history (history_index).
HistoryIsInRange == past.at \in 0..Len(past.lines)

\* What the user presses is what happens, and what arrives is what is shown.
TerminalIsFaithful ==
    CompletionsFit /\ DecisionIsOffered /\ AnswerIsDrawn /\ HistoryIsInRange

=============================================================================

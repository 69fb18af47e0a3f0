-------------------------- MODULE ConfirmDialogue --------------------------
(***************************************************************************)
(* The confirm box (psittacula-tui/src/confirm_dialogue.cpp): the worker   *)
(* thread that runs a tool shows the box and waits on a condition variable *)
(* for a key; the UI thread reads the keyboard and hands keys over while   *)
(* the box is shown (App::MainLoop, app.cpp).  The only state the threads  *)
(* share under the mutex is m_pressed_key; m_is_shown is atomic.           *)
(*                                                                         *)
(* A step is what one thread does under the mutex, or between two accesses *)
(* to what is shared.  Names that every specification has begin with Box   *)
(* here: InputProofs is about this module and InputEditor.                 *)
(***************************************************************************)
EXTENDS Integers

CONSTANT MaxBoxes   \* bound: boxes shown in a session

ASSUME BoxesAssumption == MaxBoxes \in Nat

VARIABLES
    place,    \* where Confirm is on the worker thread; "away" outside of it
    shown,    \* m_is_shown
    pressed,  \* m_pressed_key
    granted,  \* what the last call of Confirm decided
    ui,       \* where the UI thread is
    key,      \* the key it read
    boxes,    \* history: boxes shown so far; the current box has this number
    putAt     \* history: the value of boxes when pressed was stored

confirm == <<place, shown, pressed, granted>>
main    == <<ui, key>>
history == <<boxes, putAt>>
boxVars == <<confirm, main, history>>

Typed   == {"y", "n", "esc", "other"}   \* keys the user types
Answers == {"y", "n", "esc", "eof"}     \* keys that end the wait

\* Places where the box is shown and not decided.
Deciding == {"drawing", "blocked", "woken", "expired"}

BoxTypes ==
    /\ place \in {"away", "drawing", "blocked", "woken", "expired", "decided"}
    /\ shown \in BOOLEAN
    /\ pressed \in Typed \cup {"eof", "none"}
    /\ granted \in BOOLEAN
    /\ ui \in {"read", "typed", "put", "notify", "joining"}
    /\ key \in Typed \cup {"eof"}
    /\ boxes \in 0..MaxBoxes
    /\ putAt \in 0..MaxBoxes

BoxInit ==
    /\ place = "away"
    /\ shown = FALSE
    /\ pressed = "none"
    /\ granted = FALSE
    /\ ui = "read"
    /\ key = "other"
    /\ boxes = 0
    /\ putAt = 0

-----------------------------------------------------------------------------
(***************************************************************************)
(* The worker thread: ConfirmDialogue::Confirm.                            *)
(***************************************************************************)

\* A tool calls ask_confirm: the box counts as shown before it is drawn.
Ask ==
    /\ place = "away"
    /\ boxes < MaxBoxes
    /\ place' = "drawing"
    /\ shown' = TRUE
    /\ granted' = FALSE
    /\ boxes' = boxes + 1
    /\ UNCHANGED <<pressed, main, putAt>>

\* Mutant: the key of the box before is not forgotten.
OpenUnreset ==
    /\ place = "drawing"
    /\ place' = IF pressed \in Answers THEN "woken" ELSE "blocked"
    /\ UNCHANGED <<shown, granted, pressed, main, history>>

\* Under the lock the key is forgotten, the predicate is false and the wait
\* begins.
Open ==
    /\ place = "drawing"
    /\ place' = "blocked"
    /\ pressed' = "none"
    /\ UNCHANGED <<shown, granted, main, history>>

\* A spurious wake-up.
WakeUp ==
    /\ place = "blocked"
    /\ place' = "woken"
    /\ UNCHANGED <<shown, pressed, granted, main, history>>

\* Mutant: no time limit.
ExpireNever == FALSE /\ UNCHANGED boxVars

\* The wait times out.
Expire ==
    /\ place = "blocked"
    /\ place' = "expired"
    /\ UNCHANGED <<shown, pressed, granted, main, history>>

\* With the lock again: the predicate is evaluated, and the wait goes on when
\* it is false and there is time left.
Decide ==
    /\ place \in {"woken", "expired"}
    /\ place = "woken" => pressed \in Answers
    /\ place' = "decided"
    /\ granted' = (pressed = "y")
    /\ UNCHANGED <<shown, pressed, main, history>>

WaitOn ==
    /\ place = "woken"
    /\ pressed \notin Answers
    /\ place' = "blocked"
    /\ UNCHANGED <<shown, pressed, granted, main, history>>

\* The box disappears and Confirm returns.
Return ==
    /\ place = "decided"
    /\ place' = "away"
    /\ shown' = FALSE
    /\ UNCHANGED <<pressed, granted, main, history>>

Worker == Ask \/ Open \/ WakeUp \/ Expire \/ Decide \/ WaitOn \/ Return

-----------------------------------------------------------------------------
(***************************************************************************)
(* The UI thread: App::MainLoop and ~App.                                  *)
(***************************************************************************)

\* ReadKey returns a key.
TypeKey(k) ==
    /\ ui = "read"
    /\ ui' = "typed"
    /\ key' = k
    /\ UNCHANGED <<confirm, history>>

\* IsShown decides whether the key is for the box.
Route ==
    /\ ui = "typed"
    /\ ui' = IF shown THEN "put" ELSE "read"
    /\ UNCHANGED <<confirm, key, history>>

\* ~App: Cancel puts an eof, whether a box is shown or not.
Leave ==
    /\ ui = "read"
    /\ ui' = "put"
    /\ key' = "eof"
    /\ UNCHANGED <<confirm, history>>

StoreKey ==
    /\ pressed' = key
    /\ putAt' = boxes
    /\ UNCHANGED <<shown, granted, key, boxes>>

\* Mutant: the worker is notified before the key is stored.
PutUnannounced ==
    /\ ui = "put"
    /\ ui' = IF key = "eof" THEN "joining" ELSE "read"
    /\ StoreKey
    /\ UNCHANGED place

\* PutCharFromKeyboard stores the key under the lock, ...
Put ==
    /\ ui = "put"
    /\ ui' = "notify"
    /\ StoreKey
    /\ UNCHANGED place

\* ... and notifies a worker that waits.  After Cancel ~App joins the worker.
Notify ==
    /\ ui = "notify"
    /\ ui' = IF key = "eof" THEN "joining" ELSE "read"
    /\ place' = IF place = "blocked" THEN "woken" ELSE place
    /\ UNCHANGED <<shown, pressed, granted, key, history>>

Ui == (\E k \in Typed : TypeKey(k)) \/ Route \/ Leave \/ Put \/ Notify

BoxNext == Worker \/ Ui

BoxSpec == BoxInit /\ [][BoxNext]_boxVars

\* Confirm goes on whenever it holds the processor, and the timeout comes.
\* Nothing is assumed of the user, of the UI thread or of spurious wake-ups.
Fairness ==
    /\ WF_boxVars(Open \/ Decide \/ WaitOn \/ Return)
    /\ SF_boxVars(Expire)

FairSpec == BoxSpec /\ Fairness

-----------------------------------------------------------------------------
(***************************************************************************)
(* Properties.                                                             *)
(***************************************************************************)

\* A worker sleeps on an answer only as long as its notification is under way:
\* no answer has to wait for the timeout.
NoLostWakeup == place = "blocked" /\ pressed \in Answers => ui = "notify"

\* A box is approved only by a key that was stored while it was shown, never by
\* what an earlier box left behind.
ConsentIsFresh == granted => putAt = boxes

\* "a stuck UI can never park the engine thread forever"
BoxCloses == place # "away" ~> place = "away"

\* The inductive invariant: after the reset, the stored key is a key of the
\* current box.
KeyIsOfThisBox ==
    place \in {"blocked", "woken", "expired"} /\ pressed # "none" => putAt = boxes

BoxInv == BoxTypes /\ NoLostWakeup /\ ConsentIsFresh /\ KeyIsOfThisBox

=============================================================================

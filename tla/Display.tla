-------------------------------- MODULE Display --------------------------------
(***************************************************************************)
(* The render thread from one frame to the next: about_to_wait and         *)
(* run_headless (crates/app/src/main.rs), the drawing part of              *)
(* Session::tick (crates/app/src/session.rs) and render_outputs            *)
(* (crates/app/src/gfx.rs), over the windows (Outputs) and the card        *)
(* (Upload).                                                               *)
(*                                                                         *)
(* A frame is cut where the thread waits for the card, which goes on       *)
(* beside.  A call to the driver may fail at any time.  To keep the state  *)
(* space small, a history is about the hall, where monitors and outputs    *)
(* change and a prompt card draws the pictures it has, or about the        *)
(* card, late and short of buffers and fences, under the outputs it has.   *)
(***************************************************************************)
EXTENDS Upload, Outputs

VARIABLES
  about,      \* "hall" or "card"
  at,         \* "idle", "upload", "draw", "health" or "over"
  todo,       \* windows still to draw in this frame
  presented,  \* any_presented
  pollDue,    \* MONITOR_POLL_PERIOD has passed
  exit        \* the exit code, or Running

Running == -1
OK == 0
GpuLost == 11

thread == <<at, todo, presented, pollDue, exit>>
vars == <<about, gpu, screens, failures, thread>>

Init ==
  /\ about \in {"hall", "card"}
  /\ GpuInit /\ OutputsInit
  /\ at = "idle" /\ todo = <<>> /\ presented = FALSE /\ pollDue = FALSE /\ exit = Running

\* In the hall, the card has done what it was asked.
Prompt == about = "hall" => queue = <<>>
Outcomes == IF about = "hall" THEN {TRUE} ELSE BOOLEAN

\* The end of about_to_wait(): the loss of the card, then a request to quit.
Finish ==
  /\ todo' = <<>> /\ presented' = FALSE
  /\ IF fatal' # "none" THEN exit' = GpuLost ELSE exit' \in {Running, OK}
  /\ at' = IF exit' = Running THEN "idle" ELSE "over"

\* The windows follow the outputs, then the monitors; without a window there
\* is nothing to draw.  When the first window cannot be made current
\* (make_root_current), the pictures of this frame are thrown away.
Begin ==
  /\ at = "idle" /\ Prompt
  /\ dirty' = FALSE /\ pollDue' = FALSE
  /\ UNCHANGED <<about, gpu, plugged, outputs, moves>>
  /\ \E works, current \in BOOLEAN, refused \in SUBSET Outputs :
       LET ensured == IF dirty THEN EnsureWindows(works, refused) ELSE [gl |-> gl, windows |-> windows]
       IN  /\ gl' = ensured.gl
           /\ windows' = IF pollDue THEN PollMonitors(ensured.windows) ELSE ensured.windows
           /\ IF windows' = <<>> THEN UNCHANGED failures /\ Finish
              ELSE IF ~current THEN Failures(1) /\ fatal' = Fatal /\ Finish
              ELSE /\ at' = "upload"
                   /\ UNCHANGED <<failures, todo, presented, exit>>

\* poll_uploads(): the deck has a new picture, or not.
Pictured ==
  /\ at = "upload"
  /\ at' = "draw" /\ todo' = RenderOrder
  /\ UNCHANGED <<about, screens, failures, presented, pollDue, exit>>
  /\ \/ UNCHANGED gpu
     \/ /\ about = "card"
        /\ \E size \in Sizes, made, persistent, pair, fence, abandon \in BOOLEAN :
             UploadFrame(size, made, persistent, pair, fence, abandon)

\* A window: not made current, or not rendered; or drawn, and its buffers
\* swapped or not.  The wait of limit_frame_latency comes before the swap.
DrawWindow ==
  /\ at = "draw" /\ todo # <<>> /\ ~Limited /\ Prompt
  /\ todo' = Tail(todo)
  /\ \/ UNCHANGED <<gpu, presented, lit>>
     \/ /\ \E fence \in Outcomes : Draw(fence)
        /\ \E swapped \in BOOLEAN : presented' = (presented \/ swapped) /\ lit' = (lit \/ swapped)
  /\ UNCHANGED <<about, screens, streak, since, fatal, at, pollDue, exit>>

WaitForCard ==
  /\ at = "draw" /\ GiveUp
  /\ UNCHANGED <<about, screens, failures, thread>>

\* The card said that it was reset; or the frame is one more failure when
\* no window was presented.  The previews make the first window current
\* again, twice at most, and fail too.
Health ==
  /\ at = "draw" /\ todo = <<>> /\ ~Limited
  /\ UNCHANGED <<about, gpu, screens, pollDue>>
  /\ \/ fatal' = "reset" /\ UNCHANGED <<streak, since, lit>>
     \/ \E previews \in 0..2 :
          /\ IF presented THEN Success(previews) ELSE Failures(1 + previews)
          /\ fatal' = Fatal
  /\ Finish

\* MONITOR_POLL_PERIOD has passed.
PollTimer ==
  /\ ~pollDue /\ exit = Running
  /\ pollDue' = TRUE
  /\ UNCHANGED <<about, gpu, screens, failures, at, todo, presented, exit>>

Thread == Begin \/ Pictured \/ DrawWindow \/ WaitForCard \/ Health
Hall ==
  /\ exit = Running /\ UNCHANGED <<about, gpu, thread>>
  /\ \/ Age
     \/ about = "hall" /\ \E m \in Monitors : Unplug(m) \/ \E pos \in Positions : Plug(m, pos)
     \/ about = "hall" /\ \E o \in Outputs, c \in Configs : SetOutput(o, c)
Card == Execute /\ UNCHANGED <<about, screens, failures, thread>>

Next == Thread \/ PollTimer \/ Hall \/ Card

\* The loop never stops calling about_to_wait, the two seconds pass and the
\* card does what it is asked.
Fairness == WF_vars(Thread) /\ WF_vars(PollTimer) /\ WF_vars(Card)
Spec == Init /\ [][Next]_vars /\ Fairness
----------------------------------------------------------------------------
(* Properties.                                                             *)

DisplayTypeOK ==
  /\ GpuTypeOK
  /\ streak \in 0..FatalStreak /\ since \in {"none", "young", "old"}
  /\ fatal \in {"none", "reset", "failures"} /\ exit \in {Running, OK, GpuLost}
  /\ \A i \in DOMAIN windows :
       windows[i].output \in Outputs /\ windows[i].at \in DOMAIN plugged /\ (windows[i].fallback => windows[i].full)
  /\ gl # "ready" => windows = <<>>

\* Without a reset, the program takes the card for lost and stops only when
\* no output has shown a picture since the series of failures began: one
\* output that still plays keeps the show running (note_gl_success,
\* gl_failure_is_fatal).
FatalOnlyInTheDark == fatal = "failures" => ~lit

\* A projector that comes back gets its picture back, wherever it is now on
\* the desktop, whatever calls to the driver fail meanwhile, as long as the
\* program runs (poll_monitors).
ScreensComeBack == \A o \in Outputs : Astray(o) ~> (~Astray(o) \/ exit # Running)

\* Windows, rings and counters are well formed, and a texture shows the frame its
\* slot was given.
DisplayInvariant == DisplayTypeOK /\ SlotsHoldTheirFrame
===============================================================================

---------------------------- MODULE CueHistory ----------------------------
(***************************************************************************)
(* History variables beside the cue engine: what its promises about the    *)
(* standby, the follow and the timecode chase are stated with.  They       *)
(* record what happened and never constrain a step of CueEngine.           *)
(***************************************************************************)
EXTENDS CueEngine

VARIABLES
  pinned,   \* standby chosen by STANDBY and not yet used, or NoCue
  looped,   \* the standby may come from a goto_after edited since
  follows,  \* automatic follows since the cue on programme was activated
  astray    \* something other than the chase moved the programme since it cued

hvars == <<vars, pinned, looped, follows, astray>>

\* The events a step adds.
NewEvents ==
  IF Len(show'.events) > Len(show.events)
  THEN SubSeq(show'.events, Len(show.events) + 1, Len(show'.events)) ELSE <<>>
Happens(type) == \E i \in DOMAIN NewEvents : NewEvents[i].type = type

ListChanges == phase = "idle" /\ phase' = "idle" /\ pending' = <<>>
StandbyObeyed == Applying("standby") /\ ~Happens("warning")
FollowActs == phase = "follow" /\ NewEvents # <<>>
ChaseCues == phase \in {"chase", "fire"} /\ show' # show

\* chase_seek ran: the position did not come from a continuous signal.
Near(c, new) == /\ c.locked /\ c.rate = new.rate /\ new.frames >= c.frames
                /\ new.frames - c.frames <= SeekFwd * new.rate
Seeks == /\ phase = "chase" /\ Triggers # {}
         /\ \E new \in chase' : new.locked /\ \A c \in chase : ~Near(c, new)

\* An edit changes where the cue on air loops: its goto_after, or the cue this
\* names comes back in the list.  load_hot keeps the standby there was.
LoopEdited ==
  LET on == OnAir(show)
  IN  /\ on \in DOMAIN cues'
      /\ \/ cues'[on].gotoAfter # cues[on].gotoAfter
         \/ cues'[on].gotoAfter \in DOMAIN cues' \ DOMAIN cues

HInit == Init /\ pinned = NoCue /\ looped = FALSE /\ follows = 0 /\ astray = TRUE

HNext ==
  /\ Next
  /\ pinned' = IF StandbyObeyed THEN Head(pending).cue
               ELSE IF \/ Happens("started") \/ ChaseCues
                       \/ ListChanges /\ show'.standby # pinned
                    THEN NoCue ELSE pinned
  /\ looped' = IF ListChanges THEN looped \/ LoopEdited
               ELSE IF Happens("finished") THEN FALSE ELSE looped
  /\ follows' = IF Happens("finished") \/ show'.active = NoCue THEN 0
                ELSE IF FollowActs THEN follows + 1 ELSE follows
  /\ astray' = /\ ~Seeks /\ phase # "fire"
               /\ \/ astray \/ ListChanges \/ (phase = "chase" /\ chase' = {})
                  \/ phase \in {"pending", "follow"} /\ Happens("started")

HSpec == HInit /\ [][HNext]_hvars

----------------------------------------------------------------------------
(* Properties.                                                             *)

\* An automatic follow fires at most once for one activation of a cue, edits
\* of the list during the cue included.
FollowAtMostOnce == follows <= 1

\* While only the timecode moves the programme, the cue on air is the last one
\* whose trigger the timecode has reached, whether it got there by running on,
\* by a jump either way, by freewheeling or by locking again.
Reached(c) == {n \in Triggers : At(n, c.rate) <= c.frames}
ChaseTracks ==
  phase = "follow" /\ ~astray =>
    \A c \in chase :
      IF Reached(c) = {} THEN OnAir(show) = NoCue
      ELSE /\ OnAir(show) \in Reached(c)
           /\ \A n \in Reached(c) : NotAfter(n, OnAir(show), c.rate)

\* GO never plays again the cue that is on air, not even after an edit, unless
\* STANDBY or a goto_after asks for it.
GoNeverReplays ==
  [][ LET on == OnAir(show)
      IN  Applying("go") /\ Happens("started") /\ on # NoCue /\ pinned = NoCue /\ ~looped
          => OnAir(show') # on \/ cues[on].gotoAfter = on ]_hvars

\* The documentation of Cue::goto_after: at the end of the cue, back to that
\* number.
LoopIsTaken ==
  [][ LET g == cues[show.active].gotoAfter
      IN  FollowActs /\ pinned = NoCue /\ ~looped /\ g \in DOMAIN cues
          => OnAir(show') = g ]_hvars

\* The frame returned by the tick poses, at alpha 1, the parameters of every
\* cue that came on programme since the last one, the later cue winning for each
\* address: a GO that snaps a fade and then cuts loses neither snapshot, nor does
\* an edit of the list that snaps one.
Ended == {i \in DOMAIN NewEvents : NewEvents[i].type = "finished"}
PosedBy(i) == cues[NewEvents[i].cue].params
SnapshotsPosed ==
  [][ /\ \A i \in Ended : \A a \in DOMAIN PosedBy(i) :
           /\ show'.finished.given /\ a \in DOMAIN show'.finished.map
           /\ (\A j \in Ended : j > i => a \notin DOMAIN PosedBy(j))
                => show'.finished.map[a] = PosedBy(i)[a]
      /\ show.finished.given /\ phase # "frame" /\ show' # Fresh(cues') =>
           /\ show'.finished.given
           /\ \A a \in DOMAIN show.finished.map :
                /\ a \in DOMAIN show'.finished.map
                /\ (\A i \in Ended : a \notin DOMAIN PosedBy(i))
                     => show'.finished.map[a] = show.finished.map[a] ]_vars

\* The emergency black can be relied on: once engaged it never gets lighter by
\* itself, and only an obeyed GO, BACK or GOTO, or a new show, lifts it.
PanicHolds == PanicNeverLightens /\ PanicReleasedByOperator

\* The programme moves as the operator and the cue list ask, whatever comes
\* together: a fade is not cut short, an edit leaves the cue on air alone, GO
\* does not replay it, a goto_after is obeyed, a follow fires once, and the
\* parameters of every cue that ended its entry are posed.
ProgrammeMovesAsAsked ==
  /\ FadeNotCutShort /\ EditKeepsProgramme
  /\ GoNeverReplays /\ LoopIsTaken
  /\ []FollowAtMostOnce /\ SnapshotsPosed
===========================================================================

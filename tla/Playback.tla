------------------------------ MODULE Playback ------------------------------
(***************************************************************************)
(* The cue engine, the media slots and the preload thread together, in the *)
(* order of Session::tick (crates/app/src/session.rs): the engine's tick,  *)
(* with the slots' media_eof as its oracle of finished media, then the     *)
(* events of the tick (a started cue asks for its media to restart), then  *)
(* Players::sync with the frame, then advance and poll_uploads.  The       *)
(* preload thread runs beside.                                             *)
(***************************************************************************)
EXTENDS CueEngine

CONSTANTS
  Videos, Images, Colors, Loops, BlackEnds, Absent, NoContent, Black,
  Scenes,      \* the content of each slice in each cue of each list
  Inputs,      \* the commands of the operator
  MaxBacklog   \* the preload thread has at most this many requests to take when a tick begins

VARIABLES
  slots, alias, fresh, moving, requests, done, tex,
  played       \* the tick has played the slots: it is over

P == INSTANCE Players

ASSUME ScenesAssumption ==
  /\ P!ContentsAssumption /\ IsFiniteSet(Slices)
  /\ Inputs \subseteq Commands /\ MaxBacklog \in Nat
  /\ \A l \in CueLists : \A n \in DOMAIN l : Scenes[l][n] \in [Slices -> P!Contents \cup {NoContent}]

decks == <<slots, alias, fresh, moving, requests, done, tex>>
allVars == <<vars, decks, played>>

\* The scene of a cue, none before the first.
SceneOf(n) == IF n = NoCue THEN [s \in Slices |-> NoContent] ELSE Scenes[cues][n]

StartedNow == {show.events[i].cue : i \in {j \in DOMAIN show.events : show.events[j].type = "started"}}

\* process_cue_events: the slices of the started cues that show a media.
Restarts == {s \in Slices : \E n \in StartedNow : n \in DOMAIN cues /\ SceneOf(n)[s] \in P!Media}

Between == phase = "idle" /\ played

Command ==
  /\ Between /\ \E c \in Inputs : Enqueue(c)
  /\ UNCHANGED <<decks, played>>

EditCues ==
  /\ Between /\ \E l \in CueLists \ {cues} : LoadHot(l)
  /\ UNCHANGED <<decks, played>>

\* MediaAdd, MediaRemove, MediaUpdate, or the result of a rescan.
EditMedia ==
  /\ Between /\ slots # <<>> /\ Len(requests) + Len(done) <= MaxBacklog /\ P!Clear
  /\ UNCHANGED <<vars, played>>

StartTick ==
  /\ Between /\ Len(requests) <= MaxBacklog
  /\ \E d \in Deltas : BeginTick(d)
  /\ UNCHANGED <<decks, played>>

Follow == CheckFollow({s \in Slices : P!MediaEof(s)})

EngineStep ==
  /\ ApplyPending \/ FinishTransition \/ ChaseOff \/ Follow
  /\ UNCHANGED <<decks, played>>

Render ==
  /\ EmitFrame
  /\ P!Sync(SceneOf(Frame.deckA), SceneOf(Frame.deckB),
            show.transition.to # NoCue /\ ~Frame.freezeB, Restarts)
  /\ played' = FALSE

PlaySlots ==
  /\ ~played /\ played' = TRUE
  /\ \E poll \in [DOMAIN slots -> P!Polls] : P!Play(poll)
  /\ UNCHANGED vars

Preload == P!Load /\ UNCHANGED <<vars, played>>

PlaybackInit == Init /\ P!InitSlots /\ played = TRUE

TickSteps == StartTick \/ EngineStep \/ Render \/ PlaySlots

PlaybackNext == Command \/ EditCues \/ EditMedia \/ TickSteps \/ Preload

\* The render loop and the preload thread both run for as long as the program.
PlaybackSpec ==
  PlaybackInit /\ [][PlaybackNext]_allVars /\ WF_allVars(TickSteps) /\ WF_allVars(Preload)

----------------------------------------------------------------------------
(* Properties.                                                             *)

\* Type invariant.
PlaybackTypeOK == TypeOK /\ P!SlotsTypeOK /\ played \in BOOLEAN

\* A player or a picture is shown only in a slot that wants that very media,
\* however late the preload thread answers and whatever was cued meanwhile.
HoldsItsContent ==
  \A k \in DOMAIN slots :
    slots[k].kind \in {"video", "image", "color"} => slots[k].holds = slots[k].key

\* The programme shows nothing on slice s from now on, and deck B wants what its
\* slot of deck A still holds, from the cue that is left.
Stale(s, a, b) == a = NoContent /\ b # NoContent /\ P!HoldsKey([slots |-> slots], <<s, "A">>, b)

\* After each synchronisation the programme has a slot with its content, and so
\* has deck B or, when it wants the content of deck A, it shares that one player.
\* But one case, where sync() takes the slot that it is about to prune for the
\* programme's: deck B is said to share it, and the slice is left without a slot
\* until the next synchronisation, where deck A has none and deck B gets its own.
DecksServed ==
  [][ phase = "frame" /\ phase' = "idle" =>
        \A s \in Slices :
          LET a == SceneOf(Frame.deckA)[s]  b == SceneOf(Frame.deckB)[s]
              served == {k \in DOMAIN slots' : k[1] = s}
          IN  /\ (<<s, "A">> \in served) = (a # NoContent)
              /\ <<s, "A">> \in served => slots'[<<s, "A">>].key = a
              /\ (s \in alias') = (b # NoContent /\ (a = b \/ Stale(s, a, b)))
              /\ (<<s, "B">> \in served) = (b \notin {a, NoContent} /\ ~Stale(s, a, b))
              /\ <<s, "B">> \in served => slots'[<<s, "B">>].key = b ]_allVars

\* Once a tick is over, the texture of a deck shows the media its slot plays, a
\* slot moved from the other deck included, and an alias shows it on deck B too.
TextureShows ==
  played =>
    \A k \in DOMAIN slots :
      slots[k].kind = "video" /\ slots[k].at \in {"ready", "on"} =>
        /\ tex[k] = slots[k].key
        /\ k[2] = "A" /\ k[1] \in alias => tex[<<k[1], "B">>] = slots[k].key

\* A cue that starts plays its media from the entry point, whatever the slot that
\* already holds that media was doing.
Shown(s, n) == {k \in {s} \X P!Decks : P!HoldsKey([slots |-> slots], k, SceneOf(n)[s])}
StartsFromTop ==
  [][ phase = "frame" /\ phase' = "idle" /\ OnAir(show) \in StartedNow =>
        \A s \in Slices : \A k \in Shown(s, OnAir(show))' :
          slots'[k].kind = "video" => P!Entered(slots'[k]) ]_allVars

\* Players are never reopened or sought when the content on air does not change:
\* no cue started in this tick, and the slice goes on with the same media.
Continuity ==
  [][ phase = "frame" /\ phase' = "idle" /\ StartedNow = {} =>
        \A s \in Slices : \A k \in Shown(s, OnAir(show)) :
          slots[k].kind = "video" =>
            \E j \in Shown(s, OnAir(show))' :
              slots'[j].gen = slots[k].gen /\ slots'[j].at = slots[k].at ]_allVars

\* Every preload arrives: no slot waits for ever for the same media, it gets it,
\* gives up or is put to something else.
PreloadArrives ==
  \A k \in Slices \X P!Decks, c \in P!Media :
    []<>~(P!HoldsKey([slots |-> slots], k, c) /\ slots[k].kind = "pending")

\* A cue that follows its media does, once the media has ended on programme.
EndedOnAir(s) == <<s, "A">> \in DOMAIN slots /\ slots[<<s, "A">>].at \in {"end", "black"}
MediaFollowed ==
  \A n \in Numbers :
    (/\ show.active = n /\ n \in DOMAIN cues /\ cues[n].follow = "after_media"
     /\ \E s \in cues[n].media : EndedOnAir(s))
      ~> \/ show.followFired \/ show.active # n \/ show.transition.to # NoCue
         \/ ~\E s \in cues[n].media : EndedOnAir(s)
         \/ n \notin DOMAIN cues \/ cues[n].follow # "after_media"

\* In every interleaving of the tick with the preload thread, a slot holds what
\* it wants and, at the end of the tick, shows what it holds.
PlaybackInvariant == PlaybackTypeOK /\ HoldsItsContent /\ TextureShows

\* Each synchronisation takes the decks from cue to cue: each has its content
\* (but in the case of Stale), from its entry point when its cue starts, and undisturbed otherwise.
DecksFollowCues == DecksServed /\ StartsFromTop /\ Continuity

\* A show left alone goes on: media are loaded, fades end, waits and ends of
\* media are followed.
ShowGoesOn == PreloadArrives /\ MediaFollowed /\ FadeEnds /\ WaitFollows
=============================================================================

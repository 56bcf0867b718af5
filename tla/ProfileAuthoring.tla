--------------------------- MODULE ProfileAuthoring ---------------------------
(***************************************************************************)
(* The guided editor of the notebook and the store of profiles it writes   *)
(* to: an editor saves what a teacher types after a pause and one request  *)
(* at a time, confirms it, and publishes it; the store keeps a draft with  *)
(* a revision, immutable versions and an audit file with one line for      *)
(* each version, without which a version is not served.                    *)
(*                                                                         *)
(* The store's operations run to their end under its lock, but a process   *)
(* that dies or a disk that fails may cut a publication anywhere.  A       *)
(* request or its answer may be lost.  The text of an editor is the number *)
(* of edits it had.  MaxEdit bounds the edits of all editors together and  *)
(* MaxFault the lost requests and cut publications.  Its Init, Next and    *)
(* vars carry a prefix: a module can extend it beside another component.   *)
(***************************************************************************)
EXTENDS Integers, Sequences, FiniteSets, Functions

CONSTANTS Editor, MaxEdit, MaxFault

VARIABLES
  drafts,    \* by profile: draft.json
  versions,  \* by profile: the contents of v1.json, v2.json, ...
  audit,     \* profile_deployment.jsonl: its whole lines, and what follows the last of them
  editor,    \* the GuidedProfileAutosave of each editor, and the state it saves
  faults

profileVars == <<drafts, versions, audit, editor, faults>>
store == <<drafts, versions, audit>>

Clean == <<>>      \* nothing follows the last newline
Torn == <<0, 0>>   \* a piece of a line does; a <<profile, version>> is a line without its newline

Payload(r) == [text |-> r.text, confirmed |-> r.confirmed]
NoPayload == [text |-> 0, confirmed |-> FALSE]
NoSave == [pc |-> "idle", profile |-> 0, revision |-> 0, payload |-> NoPayload]
NoVersion == [version |-> 0, payload |-> NoPayload]

\* beginDraft, in a new editor
FreshEditor ==
  [text |-> 0, complete |-> FALSE, confirmed |-> FALSE, confirming |-> -1,
   dirty |-> FALSE, ready |-> FALSE, timer |-> FALSE, failed |-> FALSE,
   conflicted |-> FALSE, disposed |-> FALSE, profile |-> 0, revision |-> 0,
   save |-> NoSave,  \* the request of the active drain
   publishing |-> "no", clicked |-> 0, answer |-> NoVersion, shown |-> NoVersion]

ProfileInit ==
  /\ drafts = <<>> /\ versions = <<>>
  /\ audit = [lines |-> {}, tail |-> Clean]
  /\ editor = [e \in Editor |-> FreshEditor]
  /\ faults = 0

-----------------------------------------------------------------------------
(* The editor: what it saves and when *)

MarkChanged(r) ==
  IF r.conflicted THEN r ELSE [r EXCEPT !.dirty = TRUE, !.ready = FALSE, !.timer = TRUE]

\* One turn of drainLoop, up to its request.
Drain(r) ==
  IF ~r.dirty \/ ~r.ready \/ r.conflicted THEN r
  ELSE IF ~r.complete THEN [r EXCEPT !.ready = FALSE, !.failed = TRUE]
  ELSE [r EXCEPT !.dirty = FALSE, !.ready = FALSE, !.failed = FALSE,
                 !.save = [pc |-> "sent", profile |-> r.profile, revision |-> r.revision, payload |-> Payload(r)]]

\* ensureDrain joins the drain that is under way.
EnsureDrain(r) == IF r.save.pc = "idle" THEN Drain(r) ELSE r

\* flushAndWait: what it says once no drain is under way.
Flushed(r) == ~r.conflicted /\ ~r.failed /\ ~r.dirty /\ r.profile # 0

\* publishOnce goes on when the drain it waits for has ended.
GoOn(r) ==
  IF r.publishing # "flush" \/ r.save.pc # "idle" THEN r
  ELSE [r EXCEPT !.publishing = IF Flushed(r) THEN "sent" ELSE "no"]

Set(e, r) == editor' = [editor EXCEPT ![e] = r]

\* Edits so far, in all editors.
Typed == FoldFunction(LAMBDA r, n : r.text + n, 0, editor)

\* A teacher types; complete says that the required fields are filled.
Edit(e) ==
  /\ ~editor[e].disposed /\ Typed < MaxEdit
  /\ \E complete \in BOOLEAN :
       Set(e, MarkChanged([editor[e] EXCEPT !.text = @ + 1, !.complete = complete, !.confirmed = FALSE]))
  /\ UNCHANGED <<store, faults>>

AskToConfirm(e) ==
  /\ ~editor[e].disposed /\ editor[e].complete /\ editor[e].confirming = -1 /\ ~editor[e].confirmed
  /\ Set(e, [editor[e] EXCEPT !.confirming = editor[e].text])
  /\ UNCHANGED <<store, faults>>

\* confirmTests: hashes that were taken of an older text are not adopted.
Confirm(e) ==
  LET r == [editor[e] EXCEPT !.confirming = -1]
  IN  /\ ~r.disposed /\ editor[e].confirming # -1
      /\ Set(e, IF editor[e].confirming = r.text THEN MarkChanged([r EXCEPT !.confirmed = TRUE]) ELSE r)
      /\ UNCHANGED <<store, faults>>

\* The timer is of no use while a save is under way.
Timer_Slip(e) ==
  /\ editor[e].timer /\ ~editor[e].disposed
  /\ LET r == [editor[e] EXCEPT !.timer = FALSE]
     IN  Set(e, IF r.save.pc = "idle" THEN GoOn(EnsureDrain([r EXCEPT !.ready = TRUE])) ELSE r)
  /\ UNCHANGED <<store, faults>>

Timer(e) ==
  /\ editor[e].timer /\ ~editor[e].disposed
  /\ Set(e, GoOn(EnsureDrain([editor[e] EXCEPT !.timer = FALSE, !.ready = TRUE])))
  /\ UNCHANGED <<store, faults>>

\* A save that succeeds clears the mark of the edits made meanwhile.
SaveAnswered_Slip(e) ==
  LET r == [editor[e] EXCEPT !.save = NoSave]
      s == editor[e].save
      failed == [r EXCEPT !.dirty = TRUE, !.ready = FALSE, !.failed = TRUE]
      saved == [r EXCEPT !.profile = s.profile, !.revision = s.revision, !.dirty = FALSE]
  IN  /\ s.pc \in {"saved", "refused", "lost"}
      /\ Set(e, IF r.disposed THEN r ELSE IF s.pc = "saved" THEN GoOn(saved) ELSE GoOn(failed))
      /\ UNCHANGED <<store, faults>>

\* The answer of a save, or its loss: commit and the next turn of the loop, or handleSaveError.
SaveAnswered(e) ==
  LET r == [editor[e] EXCEPT !.save = NoSave]
      s == editor[e].save
      failed == [r EXCEPT !.dirty = TRUE, !.ready = FALSE, !.failed = TRUE]
  IN  /\ s.pc \in {"saved", "refused", "lost"}
      /\ Set(e, IF r.disposed THEN r
                ELSE CASE s.pc = "saved" -> GoOn(Drain([r EXCEPT !.profile = s.profile, !.revision = s.revision]))
                       [] s.pc = "refused" -> GoOn([failed EXCEPT !.conflicted = TRUE])
                       [] s.pc = "lost" -> GoOn(failed))
      /\ UNCHANGED <<store, faults>>

\* publish without the flush, when there is a draft.
Publish_Slip(e) ==
  LET r == editor[e]
  IN  /\ ~r.disposed /\ r.confirmed /\ r.publishing = "no" /\ r.shown = NoVersion /\ r.profile # 0
      /\ Set(e, [r EXCEPT !.publishing = "sent", !.clicked = r.text])
      /\ UNCHANGED <<store, faults>>

\* The button is there when the tests are confirmed; publish flushes first, and
\* does not ask the server for what it has published already.
Publish(e) ==
  LET r == editor[e]
      flushed == EnsureDrain([r EXCEPT !.publishing = "flush", !.clicked = r.text, !.timer = FALSE, !.ready = r.dirty \/ @])
  IN  /\ ~r.disposed /\ r.confirmed /\ r.publishing = "no" /\ r.shown = NoVersion
      /\ ~r.conflicted
      /\ Set(e, GoOn(flushed))
      /\ UNCHANGED <<store, faults>>

PublishAnswered(e) ==
  /\ editor[e].publishing \in {"published", "refused"}
  /\ Set(e, [editor[e] EXCEPT !.publishing = "no", !.answer = NoVersion,
               !.shown = IF editor[e].disposed \/ editor[e].publishing = "refused" THEN @ ELSE editor[e].answer])
  /\ UNCHANGED <<store, faults>>

\* The editor is closed; what it has sent goes on.
Dispose(e) ==
  /\ ~editor[e].disposed
  /\ Set(e, [editor[e] EXCEPT !.disposed = TRUE, !.timer = FALSE,
                             !.publishing = IF @ = "flush" THEN "no" ELSE @])
  /\ UNCHANGED <<store, faults>>

-----------------------------------------------------------------------------
(* The store *)

Profiles == DOMAIN drafts

\* create_draft
CreateDraft(e) ==
  LET s == editor[e].save
      p == Len(drafts) + 1
  IN  /\ s.pc = "sent" /\ s.profile = 0
      /\ drafts' = Append(drafts, [revision |-> 1, payload |-> s.payload])
      /\ versions' = Append(versions, <<>>)
      /\ Set(e, [editor[e] EXCEPT !.save = [s EXCEPT !.pc = "saved", !.profile = p, !.revision = 1]])
      /\ UNCHANGED <<audit, faults>>

\* update_draft writes over the revision the editor knows, and no other.
UpdateDraft(e) ==
  LET s == editor[e].save
      next == drafts[s.profile].revision + 1
  IN  /\ s.pc = "sent" /\ s.profile # 0
      /\ IF drafts[s.profile].revision = s.revision
         THEN /\ drafts' = [drafts EXCEPT ![s.profile] = [revision |-> next, payload |-> s.payload]]
              /\ Set(e, [editor[e] EXCEPT !.save = [s EXCEPT !.pc = "saved", !.revision = next]])
         ELSE /\ Set(e, [editor[e] EXCEPT !.save.pc = "refused"])
              /\ UNCHANGED drafts
      /\ UNCHANGED <<versions, audit, faults>>

\* The line is appended to whatever the file ends with.
Repaired_Slip(a) == a

\* _append_projection first makes the file end with a newline: a line that lacks
\* it gets it, a piece of one is cut off.
Repaired(a) ==
  [lines |-> IF a.tail \in {Clean, Torn} THEN a.lines ELSE a.lines \cup {a.tail}, tail |-> Clean]

\* A line written behind a piece of another is no line.
Written(a, line) == [lines |-> IF a.tail = Clean THEN a.lines \cup {line} ELSE a.lines, tail |-> Clean]

\* Where the append of a line may be cut, by what it leaves.
CutAppends(a, line) ==
  {a, Repaired(a)} \cup {[Repaired(a) EXCEPT !.tail = t] : t \in {Torn, line}} \cup {Written(Repaired(a), line)}

NextVersion(p) == Len(versions[p]) + 1

\* publish takes the draft that is stored, whoever asks.
Publishable(p) == drafts[p].payload.confirmed

PublishDraft(e) ==
  LET p == editor[e].profile
      v == NextVersion(p)
  IN  /\ editor[e].publishing = "sent"
      /\ IF Publishable(p)
         THEN /\ versions' = [versions EXCEPT ![p] = Append(@, drafts[p].payload)]
              /\ audit' = Written(Repaired(audit), <<p, v>>)
              /\ Set(e, [editor[e] EXCEPT !.publishing = "published",
                                          !.answer = [version |-> v, payload |-> drafts[p].payload]])
         ELSE /\ Set(e, [editor[e] EXCEPT !.publishing = "refused"])
              /\ UNCHANGED <<versions, audit>>
      /\ UNCHANGED <<drafts, faults>>

\* The process dies, or the disk is full, after the version's file is written.
CutPublish(e) ==
  LET p == editor[e].profile
  IN  /\ editor[e].publishing = "sent" /\ Publishable(p) /\ faults < MaxFault
      /\ versions' = [versions EXCEPT ![p] = Append(@, drafts[p].payload)]
      /\ audit' \in CutAppends(audit, <<p, NextVersion(p)>>)
      /\ Set(e, [editor[e] EXCEPT !.publishing = "refused"])
      /\ faults' = faults + 1
      /\ UNCHANGED drafts

\* A request does not reach the server, or its answer not the browser.
Lose(e) ==
  /\ faults < MaxFault /\ faults' = faults + 1
  /\ \/ /\ editor[e].save.pc \in {"sent", "saved"}
        /\ Set(e, [editor[e] EXCEPT !.save.pc = "lost"])
     \/ /\ editor[e].publishing \in {"sent", "published"}
        /\ Set(e, [editor[e] EXCEPT !.publishing = "refused"])
  /\ UNCHANGED store

\* _projection reads any line that parses, with its newline or without.
Projected(p, v) == <<p, v>> \in audit.lines \cup {audit.tail}

\* get_version: the file and its line.
Served(p, v) == v \in DOMAIN versions[p] /\ Projected(p, v)

Serve(e) == CreateDraft(e) \/ UpdateDraft(e) \/ PublishDraft(e)
Answered(e) == SaveAnswered(e) \/ PublishAnswered(e)

ProfileNext ==
  \E e \in Editor :
    \/ Edit(e) \/ AskToConfirm(e) \/ Confirm(e) \/ Timer(e) \/ Publish(e) \/ Dispose(e)
    \/ Serve(e) \/ Answered(e) \/ CutPublish(e) \/ Lose(e)

Fairness == \A e \in Editor : WF_profileVars(Timer(e)) /\ WF_profileVars(Serve(e)) /\ WF_profileVars(Answered(e))

ProfileSpec == ProfileInit /\ [][ProfileNext]_profileVars /\ Fairness

-----------------------------------------------------------------------------
(* Properties *)

\* What an editor believes saved is what the store holds: it is at rest, says
\* nothing is unsaved, and the draft is its text at the revision it knows
\* (drainLoop, update_draft).
RestIsSaved ==
  \A e \in Editor :
    LET r == editor[e]
    IN  r.save = NoSave /\ ~r.dirty /\ ~r.conflicted /\ ~r.disposed /\ r.text # 0 =>
          /\ r.profile # 0
          /\ drafts[r.profile] = [revision |-> r.revision, payload |-> Payload(r)]

\* The version an editor shows as published is served as it was shown, was
\* confirmed, and has every edit made before the button was pressed
\* (publishOnce, publish).
ShownIsServed ==
  \A e \in Editor :
    LET r == editor[e]
    IN  r.shown # NoVersion =>
          /\ Served(r.profile, r.shown.version) /\ versions[r.profile][r.shown.version] = r.shown.payload
          /\ r.shown.payload.confirmed /\ r.shown.payload.text >= r.clicked

\* What an editor tells its teacher of the store is true (drainLoop, publishOnce).
EditorTellsTruth == RestIsSaved /\ ShownIsServed

ServedVersions ==
  UNION {{<<p, v, versions[p][v]>> : v \in {n \in DOMAIN versions[p] : Served(p, n)}} : p \in DOMAIN versions}

Shelf == INSTANCE PlanShelf WITH shelf <- ServedVersions

\* The store keeps its promise through cut publications (_append_projection,
\* _projection, get_version).
KeepsProfiles == Shelf!Spec

\* An edit is saved, or the editor has said that it could not be, and a
\* publication the button asked for ends (drainLoop, publishOnce).
EditsSettle ==
  \A e \in Editor :
    LET r == editor[e]
    IN  /\ r.dirty ~> \/ ~editor[e].dirty \/ editor[e].failed \/ editor[e].conflicted \/ editor[e].disposed
        /\ editor[e].publishing # "no" ~> editor[e].publishing = "no"
=============================================================================

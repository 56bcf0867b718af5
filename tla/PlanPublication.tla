---------------------------- MODULE PlanPublication ----------------------------
(***************************************************************************)
(* The classroom plans of one experiment: the assessment settings and the  *)
(* publication context a teacher saves, the drafts they edit in several    *)
(* tabs, the numbered versions a draft becomes, the version the experiment *)
(* is bound to and the student's assignment.                               *)
(*                                                                         *)
(* A transaction that takes the scope's lock is one action, but for the    *)
(* synchronisation of assignments, which reads an assignment without a     *)
(* lock and writes it later.  publish_assessment is a sequence of          *)
(* transactions, of which several may run and any may be the last.         *)
(*                                                                         *)
(* Each draft has the id of the series it would found.  MaxDraft,          *)
(* MaxEdit, MaxConfig and MaxContext bound the drafts and sessions, the    *)
(* edits of a draft, the revisions of the settings and the context.        *)
(***************************************************************************)
EXTENDS Integers, Sequences, FiniteSets

CONSTANTS
  Request,  \* requests that publish or synchronise
  Tab,      \* tabs in which a draft is edited
  MaxDraft, MaxEdit, MaxConfig, MaxContext

ASSUME BoundsAssumption ==
  /\ MaxDraft \in Nat \ {0} /\ MaxEdit \in Nat /\ MaxConfig \in Nat
  /\ MaxContext \in Nat \ {0}

Draft == 1..MaxDraft
Session == 1..MaxDraft

VARIABLES
  config,      \* ExperimentAssessmentConfig: its revision, -1 before it exists
  context,     \* ExperimentPublicationContext: its content, 0 before it exists
  session,     \* PlanAuthoringSession rows
  draft,       \* PlanDraft rows
  versions,    \* by series: its PlanVersion rows in order of their numbers
  binding,     \* ExperimentPlanBinding: <<series, number>>
  assignment,  \* by series: the student's StudentAssignment
  request,     \* what each request is doing
  tab,         \* what each tab has read
  scope        \* the requests, one at most, that hold the scope's lock between two steps

vars == <<config, context, session, draft, versions, binding, assignment, request, tab, scope>>
settings == <<config, context>>
plans == <<versions, binding>>

NoDraft == [kind |-> "none", series |-> 0, session |-> 0, revision |-> 0, published |-> -1,
            context |-> 0, edits |-> {}]
NoAssignment == [status |-> "none", version |-> 0]
Idle == [pc |-> "idle", context |-> 0, session |-> 0, draft |-> 0, target |-> <<0, 0>>, pending |-> FALSE]
Blank == [draft |-> 0, revision |-> 0, edits |-> {}]

Init ==
  /\ config = -1 /\ context = 0
  /\ session = [s \in Session |-> "none"]
  /\ draft = [d \in Draft |-> NoDraft]
  /\ versions = [d \in Draft |-> <<>>]
  /\ binding = <<0, 0>>
  /\ assignment = [d \in Draft |-> NoAssignment]
  /\ request = [r \in Request |-> Idle]
  /\ tab = [t \in Tab |-> Blank]
  /\ scope = {}

-----------------------------------------------------------------------------
(* The settings of the experiment *)

LockScope == scope = {}

Ensure ==
  /\ LockScope /\ config = -1
  /\ config' = 0
  /\ UNCHANGED <<context, session, draft, plans, assignment, request, tab, scope>>

\* update, by whoever has read the latest revision.
UpdateConfig ==
  /\ LockScope /\ config \in 0..MaxConfig - 1
  /\ config' = config + 1
  /\ UNCHANGED <<context, session, draft, plans, assignment, request, tab, scope>>

UpsertContext ==
  /\ LockScope
  /\ context' \in 1..MaxContext
  /\ UNCHANGED <<config, session, draft, plans, assignment, request, tab, scope>>

-----------------------------------------------------------------------------
(* Authoring sessions and drafts *)

OpenSessions == {s \in Session : session[s] = "open"}
HasDraft(s) == \E d \in Draft : draft[d].session = s

Opened(s) == /\ OpenSessions = {} /\ session[s] = "none"
             /\ session' = [session EXCEPT ![s] = "open"]

OpenSession(s) ==
  /\ Opened(s)
  /\ UNCHANGED <<settings, draft, plans, assignment, request, tab, scope>>

AbandonSession(s) ==
  /\ session[s] = "open"
  /\ session' = [session EXCEPT ![s] = "abandoned"]
  /\ UNCHANGED <<settings, draft, plans, assignment, request, tab, scope>>

\* _validate_authoring_for_draft
MayDraft(s) == session[s] = "open" /\ ~HasDraft(s)

\* The new draft d of a session goes on with the bound series or founds one.
NewDraft(d, s, kind, content) ==
  [NoDraft EXCEPT !.kind = kind, !.session = s, !.context = content,
                  !.series = IF s # 0 /\ binding # <<0, 0>> THEN binding[1] ELSE d]

NextDraft(d) == draft[d].kind = "none" /\ \A e \in 1..d - 1 : draft[e].kind # "none"

\* create_draft of the wizard, profile schema 3.
CreateTrustedDraft(d, s) ==
  /\ LockScope /\ NextDraft(d) /\ MayDraft(s)
  /\ draft' = [draft EXCEPT ![d] = NewDraft(d, s, "trusted", 0)]
  /\ UNCHANGED <<settings, session, plans, assignment, request, tab, scope>>

\* create_draft without a session.
CreateLegacyDraft(d) ==
  /\ NextDraft(d)
  /\ draft' = [draft EXCEPT ![d] = NewDraft(d, 0, "legacy", 0)]
  /\ UNCHANGED <<settings, session, plans, assignment, request, tab, scope>>

\* get_draft, in a tab that may save it.
ReadDraft(t, d) ==
  /\ draft[d].kind # "none"
  /\ tab' = [tab EXCEPT ![t] = [draft |-> d, revision |-> draft[d].revision, edits |-> draft[d].edits]]
  /\ UNCHANGED <<settings, session, draft, plans, assignment, request, scope>>

Saved(t) ==
  LET d == tab[t].draft
      row == [draft[d] EXCEPT !.revision = @ + 1, !.edits = tab[t].edits \cup {t}]
  IN  /\ draft' = [draft EXCEPT ![d] = row]
      /\ tab' = [tab EXCEPT ![t] = Blank]
      /\ UNCHANGED <<settings, session, plans, assignment, request, scope>>

\* The revision is compared before the transaction only.
UpdateDraft_Slip(t) ==
  /\ LockScope /\ tab[t].draft # 0
  /\ Saved(t)

\* update_draft: what the tab has read is still the draft, or the edit is a
\* conflict.
UpdateDraft(t) ==
  /\ LockScope /\ tab[t].draft # 0
  /\ draft[tab[t].draft].revision = tab[t].revision /\ tab[t].revision < MaxEdit
  /\ Saved(t)

\* The assessment of a draft, edited in a tab: it moves the draft's revision
\* with its own, and is refused for what is published already.
UpdateAssessment(t) ==
  /\ tab[t].draft # 0
  /\ draft[tab[t].draft].revision = tab[t].revision /\ tab[t].revision < MaxEdit
  /\ draft[tab[t].draft].published # tab[t].revision
  /\ Saved(t)

-----------------------------------------------------------------------------
(* Publication *)

SourceOf(d) == <<d, draft[d].revision>>

Existing(d) == {n \in DOMAIN versions[draft[d].series] : versions[draft[d].series][n].source = SourceOf(d)}

\* _validate_authoring_for_publish and the check that follows the search for an
\* existing version: only the session of a trusted draft matters.
MayPublish(d) ==
  draft[d].kind = "trusted" =>
    \/ session[draft[d].session] = "open"
    \/ session[draft[d].session] = "published" /\ Existing(d) # {}

\* _close_authoring
Close(d) ==
  session' = IF draft[d].kind = "trusted" THEN [session EXCEPT ![draft[d].session] = "published"]
             ELSE session

\* A new version whatever was published before.
Publication_Slip(d) ==
  LET s == draft[d].series
      new == [source |-> SourceOf(d), content |-> <<draft[d].context, config>>]
  IN  /\ LockScope /\ MayPublish(d)
      /\ versions' = [versions EXCEPT ![s] = Append(@, new)]
      /\ draft' = [draft EXCEPT ![d].published = draft[d].revision]
      /\ binding' = <<s, Len(versions[s]) + 1>>
      /\ Close(d)

\* publish_draft: the draft as it is now becomes the next version of its series,
\* with the settings of this moment, or is already one; the experiment is bound
\* to it.
Publication(d) ==
  LET s == draft[d].series
      new == [source |-> SourceOf(d), content |-> <<draft[d].context, config>>]
  IN  /\ LockScope /\ MayPublish(d)
      /\ IF Existing(d) # {}
           THEN binding' \in {<<s, n>> : n \in Existing(d)} /\ UNCHANGED <<versions, draft>>
           ELSE /\ versions' = [versions EXCEPT ![s] = Append(@, new)]
                /\ draft' = [draft EXCEPT ![d].published = draft[d].revision]
                /\ binding' = <<s, Len(versions[s]) + 1>>
      /\ Close(d)

PublishDraft(d) ==
  /\ draft[d].kind # "none" /\ Publication(d)
  /\ UNCHANGED <<settings, assignment, request, tab, scope>>

-----------------------------------------------------------------------------
(* publish_assessment *)

At(r, pc) == request[r].pc = pc
Go(r, fields) == request' = [request EXCEPT ![r] = fields]
Step(r, pc) == [request[r] EXCEPT !.pc = pc]

Matches(content) ==
  /\ binding # <<0, 0>>
  /\ versions[binding[1]][binding[2]].content = <<content, config>>

\* _publication_inputs: a missing context is filled in.
ReadInputs(r) ==
  LET content == IF context = 0 THEN 1 ELSE context
  IN  /\ At(r, "idle") /\ config # -1
      /\ context' = content
      /\ Go(r, IF Matches(content) THEN [Idle EXCEPT !.pc = "sync", !.target = binding]
               ELSE [Idle EXCEPT !.pc = "open", !.context = content])
      /\ UNCHANGED <<config, session, draft, plans, assignment, tab, scope>>

\* create_or_return_open
OpenForRequest(r) ==
  /\ At(r, "open")
  /\ \/ \E s \in OpenSessions : /\ Go(r, [Step(r, "draft") EXCEPT !.session = s])
                                /\ UNCHANGED session
     \/ \E s \in Session : Opened(s) /\ Go(r, [Step(r, "draft") EXCEPT !.session = s])
  /\ UNCHANGED <<settings, draft, plans, assignment, tab, scope>>

\* create_draft; a session that has a draft or is closed ends the request.
DraftForRequest(r) ==
  LET s == request[r].session
  IN  /\ At(r, "draft") /\ LockScope
      /\ IF MayDraft(s)
           THEN \E d \in Draft :
                  /\ NextDraft(d)
                  /\ draft' = [draft EXCEPT ![d] = NewDraft(d, s, "assessment", request[r].context)]
                  /\ Go(r, [Step(r, "publish") EXCEPT !.draft = d])
           ELSE Go(r, Idle) /\ UNCHANGED draft
      /\ UNCHANGED <<settings, session, plans, assignment, tab, scope>>

PublishForRequest(r) ==
  /\ At(r, "publish") /\ Publication(request[r].draft)
  /\ Go(r, [Step(r, "abandon") EXCEPT !.target = binding'])
  /\ UNCHANGED <<settings, assignment, tab, scope>>

AbandonForRequest(r) ==
  LET s == request[r].session
  IN  /\ At(r, "abandon")
      /\ session' = IF session[s] = "open" THEN [session EXCEPT ![s] = "abandoned"] ELSE session
      /\ Go(r, Step(r, "sync"))
      /\ UNCHANGED <<settings, draft, plans, assignment, tab, scope>>

-----------------------------------------------------------------------------
(* Assignments *)

\* The teacher's page synchronises a version by its id.
RequestSync(r) ==
  /\ At(r, "idle")
  /\ \E s \in Draft : \E n \in DOMAIN versions[s] : Go(r, [Idle EXCEPT !.pc = "sync", !.target = <<s, n>>])
  /\ UNCHANGED <<settings, session, draft, plans, assignment, tab, scope>>

\* sync_assignments takes the scope's lock and reads the student's assignment.
SyncRead(r) ==
  /\ At(r, "sync") /\ LockScope
  /\ scope' = scope \cup {r}
  /\ Go(r, [Step(r, "write") EXCEPT !.pending = assignment[request[r].target[1]].status # "ready"])
  /\ UNCHANGED <<settings, session, draft, plans, assignment, tab>>

\* It binds the version and writes what it read as pending, or was not there.
SyncWrite(r) ==
  LET s == request[r].target[1]
      row == assignment[s]
  IN  /\ At(r, "write")
      /\ binding' = request[r].target
      /\ assignment' =
           IF ~request[r].pending THEN assignment
           ELSE [assignment EXCEPT ![s] = [status |-> IF row.status = "none" THEN "pending" ELSE row.status,
                                           version |-> request[r].target[2]]]
      /\ scope' = {} /\ Go(r, Idle)
      /\ UNCHANGED <<settings, session, draft, versions, tab>>

\* The transaction is rolled back.  A request that dies elsewhere is one that
\* takes no further step.
SyncFails(r) ==
  /\ At(r, "write")
  /\ scope' = {} /\ Go(r, Idle)
  /\ UNCHANGED <<settings, session, draft, plans, assignment, tab>>

\* accept_assignment, by the student.
Accept(s) ==
  /\ assignment[s].status = "pending"
  /\ assignment' = [assignment EXCEPT ![s].status = "ready"]
  /\ UNCHANGED <<settings, session, draft, plans, request, tab, scope>>

-----------------------------------------------------------------------------
RequestStep(r) ==
  \/ ReadInputs(r) \/ OpenForRequest(r) \/ DraftForRequest(r) \/ PublishForRequest(r)
  \/ AbandonForRequest(r) \/ RequestSync(r) \/ SyncRead(r) \/ SyncWrite(r) \/ SyncFails(r)

Next ==
  \/ Ensure \/ UpdateConfig \/ UpsertContext
  \/ \E s \in Session : OpenSession(s) \/ AbandonSession(s)
  \/ \E d \in Draft, s \in Session : CreateTrustedDraft(d, s)
  \/ \E d \in Draft : CreateLegacyDraft(d) \/ PublishDraft(d) \/ Accept(d)
  \/ \E t \in Tab, d \in Draft : ReadDraft(t, d)
  \/ \E t \in Tab : UpdateDraft(t) \/ UpdateAssessment(t)
  \/ \E r \in Request : RequestStep(r)

Spec == Init /\ [][Next]_vars
-----------------------------------------------------------------------------
(* Properties *)

Sources == Draft \X (0..MaxEdit)
Contents == (0..MaxContext) \X (-1..MaxConfig)
Shown == {<<0, 0>>} \cup (Draft \X Nat)

\* Type correctness of the rows, the requests and the tabs.
TypeOK ==
  /\ config \in -1..MaxConfig /\ context \in 0..MaxContext
  /\ session \in [Session -> {"none", "open", "published", "abandoned"}]
  /\ draft \in [Draft -> [kind : {"none", "trusted", "assessment", "legacy"}, series : 0..MaxDraft,
                          session : 0..MaxDraft, revision : 0..MaxEdit, published : -1..MaxEdit,
                          context : 0..MaxContext, edits : SUBSET Tab]]
  /\ versions \in [Draft -> Seq([source : Sources, content : Contents])]
  /\ binding \in Shown
  /\ assignment \in [Draft -> [status : {"none", "pending", "ready"}, version : Nat]]
  /\ request \in [Request -> [pc : {"idle", "open", "draft", "publish", "abandon", "sync", "write"},
                              context : 0..MaxContext, session : 0..MaxDraft, draft : 0..MaxDraft,
                              target : Shown, pending : BOOLEAN]]
  /\ tab \in [Tab -> [draft : 0..MaxDraft, revision : 0..MaxEdit, edits : SUBSET Tab]]
  /\ scope \in SUBSET Request /\ Cardinality(scope) <= 1

History == INSTANCE PlanHistory
  WITH Series <- Draft, Source <- Sources, Content <- Contents, bound <- binding

\* Whoever publishes what at the same time: versions are numbered without gaps
\* and kept, a state of a draft becomes one version, and the experiment is
\* bound to a version that exists.
HistoryIsKept == History!Spec

\* No tab overwrites what another has saved, whichever of two edits of a draft
\* or of its assessment comes first.
EditsAreKept == [][\A d \in Draft : draft[d].edits \subseteq draft'[d].edits]_vars

\* A trusted draft becomes a version only in a session that is open then, and
\* closes it: one that was abandoned publishes nothing, whatever tabs it has, and
\* one session publishes once.
AbandonedPublishNothing == [][
  \A d \in Draft : (draft'[d].published # draft[d].published /\ draft[d].kind = "trusted") =>
    /\ session[draft[d].session] = "open"
    /\ session'[draft[d].session] = "published"]_vars

\* "v1 已接受任务不变" (an accepted task of v1 does not change): the version of an
\* accepted assignment stays.
AcceptedKeepsVersion == [][
  \A s \in Draft : assignment[s].status = "ready" => assignment'[s] = assignment[s]]_vars

\* "超时重试不会创建第二个版本；评价配置修订后才创建新版本" (a retry after a timeout
\* creates no second version, only a revision of the settings does): two versions
\* made one after the other by publish_assessment differ.
RetriesAddNoVersion ==
  \A s \in Draft : \A n \in 1..Len(versions[s]) - 1 :
    LET v == versions[s][n]
        w == versions[s][n + 1]
    IN  draft[v.source[1]].kind = "assessment" /\ draft[w.source[1]].kind = "assessment"
          => v.content # w.content \/ v.source[1] = w.source[1]
=============================================================================

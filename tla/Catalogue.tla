----------------------------- MODULE Catalogue -----------------------------
(***************************************************************************)
(* The forms of the service and the templates they are cloned from:        *)
(* createForm, duplicateForm and deleteForm of core/forms/form.service.ts  *)
(* with their routes (routes/admin/forms.ts), and TemplateService of       *)
(* core/templates/template.service.ts (routes/admin/templates.ts).         *)
(*                                                                         *)
(* A request reads, decides and then writes, with other requests between;  *)
(* what it writes is one statement or one transaction.                     *)
(*                                                                         *)
(* A form here has its first version only; what becomes of it later is in  *)
(* FormVersions.                                                           *)
(***************************************************************************)
EXTENDS Naturals, FiniteSets

CONSTANTS
    Forms, Templates,  \* ids that can be handed out
    Slugs, NoSlug,
    Specs, NoSpec,     \* valid specs
    Requests           \* admin requests that overlap

ASSUME CatalogueAssumption == NoSpec \notin Specs /\ NoSlug \notin Slugs

VARIABLES
    form,      \* form_definitions, and the spec of version 1
    template,  \* form_templates
    uses,      \* form_template_uses, which has no key to the form
    request,   \* what each request has read
    cloned,    \* the forms made from each template
    raced      \* templates a clone of which overlapped an update or a delete

catalogueVars == <<form, template, uses, request, cloned, raced>>

-----------------------------------------------------------------------------
Form == [state : {"none", "live", "gone"}, slug : Slugs \cup {NoSlug},
         spec : Specs \cup {NoSpec}, archived : BOOLEAN]

NoForm == [state |-> "none", slug |-> NoSlug, spec |-> NoSpec, archived |-> FALSE]

Template == [state : {"none", "live", "gone"}, spec : Specs \cup {NoSpec}]

\* id is a form or a template.
Request == [step : {"idle", "publish", "duplicate", "update", "delete", "clone"},
            id : Forms \cup Templates \cup {0}, spec : Specs \cup {NoSpec}]

IdleRequest == [step |-> "idle", id |-> 0, spec |-> NoSpec]

\* A slug is unique among forms.
CatalogueTypeOK ==
    /\ form \in [Forms -> Form]
    /\ template \in [Templates -> Template]
    /\ uses \subseteq Templates \X Forms
    /\ request \in [Requests -> Request]
    /\ cloned \in [Templates -> SUBSET Forms]
    /\ raced \subseteq Templates
    /\ \A f \in Forms : (form[f].state = "live") <=> (form[f].slug # NoSlug)
    /\ \A f, g \in Forms : form[f].slug = form[g].slug => f = g \/ form[f].slug = NoSlug

LiveForm(f) == form[f].state = "live"
LiveTemplate(t) == template[t].state = "live"

SlugFree(s) == \A f \in Forms : form[f].slug # s

Turn(r, step, id, spec) ==
    request' = [request EXCEPT ![r] = [step |-> step, id |-> id, spec |-> spec]]

Close(r) == request' = [request EXCEPT ![r] = IdleRequest]

Pending(step, id) == \E r \in Requests : request[r].step = step /\ request[r].id = id

-----------------------------------------------------------------------------
\* Forms

NewForm(f, s, spec) ==
    /\ form[f].state = "none"
    /\ form' = [form EXCEPT ![f] = [state |-> "live", slug |-> s, spec |-> spec,
                                    archived |-> FALSE]]

\* POST /admin/forms: a taken slug is an error, and nothing is left of it.
CreateForm(r, f, s) ==
    /\ request[r].step = "idle"
    /\ SlugFree(s)
    /\ NewForm(f, s, NoSpec)
    /\ \/ UNCHANGED request
       \/ \E p \in Specs : Turn(r, "publish", f, p)
    /\ UNCHANGED <<template, uses, cloned, raced>>

\* The spec in the body becomes version 1, if the form is still there.
PublishFirst(r) ==
    /\ request[r].step = "publish"
    /\ LiveForm(request[r].id)
    /\ form' = [form EXCEPT ![request[r].id].spec = request[r].spec]
    /\ Close(r)
    /\ UNCHANGED <<template, uses, cloned, raced>>

\* PUT /admin/forms/:id
UpdateForm(f, s, archive) ==
    /\ LiveForm(f)
    /\ SlugFree(s) \/ form[f].slug = s
    /\ form' = [form EXCEPT ![f].slug = s, ![f].archived = archive]
    /\ UNCHANGED <<template, uses, request, cloned, raced>>

\* DELETE /admin/forms/:id, by a super-admin.
DeleteForm(f) ==
    /\ LiveForm(f)
    /\ form' = [form EXCEPT ![f] = [NoForm EXCEPT !.state = "gone"]]
    /\ UNCHANGED <<template, uses, request, cloned, raced>>

ReadSource(r, f) ==
    /\ request[r].step = "idle"
    /\ LiveForm(f)
    /\ Turn(r, "duplicate", f, form[f].spec)
    /\ UNCHANGED <<form, template, uses, cloned, raced>>

\* The copy, with a version 1 if the source has a version.
DuplicateForm(r, f, s) ==
    /\ request[r].step = "duplicate"
    /\ SlugFree(s)
    /\ NewForm(f, s, request[r].spec)
    /\ Close(r)
    /\ UNCHANGED <<template, uses, cloned, raced>>

-----------------------------------------------------------------------------
\* Templates

CreateTemplate(t, p) ==
    /\ template[t].state = "none"
    /\ template' = [template EXCEPT ![t] = [state |-> "live", spec |-> p]]
    /\ UNCHANGED <<form, uses, request, cloned, raced>>

\* Mutant: uses are counted by the template's forms that still exist.
UnusedMutant(t) == \A f \in Forms : <<t, f>> \in uses => ~LiveForm(f)

Unused(t) == \A f \in Forms : <<t, f>> \notin uses

\* updateTemplate with a spec: the uses are counted, and the row is updated.
CountForUpdate(r, t, p) ==
    /\ request[r].step = "idle"
    /\ template[t].state # "none"
    /\ Unused(t)
    /\ Turn(r, "update", t, p)
    /\ UNCHANGED <<form, template, uses, cloned, raced>>

UpdateTemplate(r) ==
    LET t == request[r].id
    IN  /\ request[r].step = "update"
        /\ LiveTemplate(t)
        /\ template' = [template EXCEPT ![t].spec = request[r].spec]
        /\ raced' = IF Pending("clone", t) THEN raced \cup {t} ELSE raced
        /\ Close(r)
        /\ UNCHANGED <<form, uses, cloned>>

CountForDelete(r, t) ==
    /\ request[r].step = "idle"
    /\ template[t].state # "none"
    /\ Unused(t)
    /\ Turn(r, "delete", t, NoSpec)
    /\ UNCHANGED <<form, template, uses, cloned, raced>>

\* The key of the uses cascades.
DeleteTemplate(r) ==
    LET t == request[r].id
    IN  /\ request[r].step = "delete"
        /\ LiveTemplate(t)
        /\ template' = [template EXCEPT ![t] = [state |-> "gone", spec |-> NoSpec]]
        /\ uses' = {u \in uses : u[1] # t}
        /\ Close(r)
        /\ UNCHANGED <<form, cloned, raced>>

ReadTemplate(r, t) ==
    /\ request[r].step = "idle"
    /\ LiveTemplate(t)
    /\ Turn(r, "clone", t, template[t].spec)
    /\ UNCHANGED <<form, template, uses, cloned, raced>>

RecordUse(t, f) == uses' = uses \cup {<<t, f>>}

\* One transaction: the form, its version 1 and the use, whose key needs the
\* template.
CloneTemplate(r, f, s) ==
    LET t == request[r].id
    IN  /\ request[r].step = "clone"
        /\ LiveTemplate(t)
        /\ SlugFree(s)
        /\ NewForm(f, s, request[r].spec)
        /\ RecordUse(t, f)
        /\ cloned' = [cloned EXCEPT ![t] = @ \cup {f}]
        /\ raced' = IF Pending("update", t) \/ Pending("delete", t)
                    THEN raced \cup {t} ELSE raced
        /\ Close(r)
        /\ UNCHANGED template

\* A slug is taken, a row is gone, or a query fails: nothing is written.
RequestFails(r) ==
    /\ request[r].step # "idle"
    /\ Close(r)
    /\ UNCHANGED <<form, template, uses, cloned, raced>>

-----------------------------------------------------------------------------
CatalogueInit ==
    /\ form = [f \in Forms |-> NoForm]
    /\ template = [t \in Templates |-> [state |-> "none", spec |-> NoSpec]]
    /\ uses = {}
    /\ request = [r \in Requests |-> IdleRequest]
    /\ cloned = [t \in Templates |-> {}]
    /\ raced = {}

FormRequest(r) ==
    \/ \E f \in Forms : ReadSource(r, f)
    \/ \E f \in Forms, s \in Slugs :
           CreateForm(r, f, s) \/ DuplicateForm(r, f, s) \/ CloneTemplate(r, f, s)
    \/ PublishFirst(r) \/ RequestFails(r)

TemplateRequest(r) ==
    \/ \E t \in Templates : CountForDelete(r, t) \/ ReadTemplate(r, t)
    \/ \E t \in Templates, p \in Specs : CountForUpdate(r, t, p)
    \/ UpdateTemplate(r) \/ DeleteTemplate(r)

CatalogueNext ==
    \/ \E r \in Requests : FormRequest(r) \/ TemplateRequest(r)
    \/ \E f \in Forms, s \in Slugs, b \in BOOLEAN : UpdateForm(f, s, b)
    \/ \E f \in Forms : DeleteForm(f)
    \/ \E t \in Templates, p \in Specs : CreateTemplate(t, p)

CatalogueSpec == CatalogueInit /\ [][CatalogueNext]_catalogueVars

-----------------------------------------------------------------------------
\* Properties

\* A template is "immutable once it has been cloned", also when the form made
\* from it is deleted: only a clone that overlapped the count of its uses may
\* see it updated or deleted.
UsedTemplateStays ==
    [][\A t \in Templates :
         template[t] # template'[t] /\ cloned[t] # {} => t \in raced']_catalogueVars

=============================================================================

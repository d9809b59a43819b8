------------------------------ MODULE CardForm ------------------------------
(***************************************************************************)
(* The forms that edit a card and a column: selectors over what the daemon *)
(* says a harness can do, rebuilt whenever the harness, the session, the   *)
(* model or the kind of space changes or an answer arrives, and the update *)
(* that saving sends, which the daemon merges and validates.               *)
(*                                                                         *)
(* Fetches are made within the key that needs them; each may fail.  Left   *)
(* out: titles and other plain texts, labels of options, the order of      *)
(* focus (a key acts on any field that is visible), the forms of comments, *)
(* moves, projects and boards.                                             *)
(***************************************************************************)
EXTENDS Sublists

CONSTANTS
    Unset,             \* None: the first option of most selectors
    Custom,          \* the option that reveals a free text
    Builtin,         \* BUILTIN_HARNESSES, in order; the first is DEFAULT_HARNESS
    Own,             \* the harnesses of the configuration, in order
    Default,         \* default_capabilities of a built-in harness
    Unknown,         \* and of any other
    Served,          \* what harness.capabilities may answer: a set of each harness
    Checked,         \* what the daemon validates against: a set of each harness
    Spaces,          \* the open workspaces of each session
    Running,         \* the running sessions, in order
    Texts,           \* what may be typed
    StoredCards,     \* what is stored at first
    StoredColumns,
    MaxKeys          \* keys that change a form, in all

\* A model may narrow the efforts of its harness.
WellFormed(caps) ==
    /\ caps.free \in BOOLEAN /\ caps.efforts \subseteq 1..7 /\ caps.modes \in Seq(STRING)
    /\ \A m \in ToSet(caps.models) : m.id # Unset /\ m.efforts \subseteq caps.efforts

\* capability.rs, the catalogs: a built-in harness by default offers the efforts
\* and the modes of all that it may answer.
ASSUME HarnessCatalogs ==
    \A h \in ToSet(Builtin) :
        /\ h # Unset /\ Served[h] # {} /\ WellFormed(Default[h])
        /\ \A caps \in Served[h] : /\ WellFormed(caps)
                                   /\ caps.efforts \subseteq Default[h].efforts
                                   /\ ToSet(caps.modes) \subseteq ToSet(Default[h].modes)

ColumnFields == {"harness", "model", "effort", "permission"}
CardFields   == ColumnFields \cup {"session", "kind", "ref", "cwd"}

ValidCard(c) ==
    /\ DOMAIN c = CardFields /\ c.kind \in {"workspace", "new_workspace"} /\ c.ref # Custom
    /\ c.kind = "new_workspace" => c.ref # Unset /\ c.cwd # Unset

ValidColumn(c) == DOMAIN c = ColumnFields /\ c.permission # "bypassPermissions"

\* What is stored at first has been accepted by card.create or column.create.
ASSUME StoredIsValid ==
    /\ Custom \notin Texts \cup {Unset}
    /\ \A c \in StoredCards : ValidCard(c)
    /\ \A c \in StoredColumns : ValidColumn(c)

VARIABLES
    stored,          \* [kind, of]: the card or column being edited
    form,            \* struct Form, or Unset
    touched,         \* fields a key has changed since the form was opened
    keys

formVars == <<stored, form, touched, keys>>

\* Capabilities are [models, free, efforts, modes]; models, [id, efforts].
\* An effort is its place in the order of efforts_for.
KnownHarness(h) == h \in ToSet(Builtin) \cup ToSet(Own)
default_capabilities(h) == IF h \in ToSet(Builtin) THEN Default[h] ELSE Unknown

Catalog(caps) == [k \in DOMAIN caps.models |-> caps.models[k].id]
Offered(caps, model) == model \in ToSet(Catalog(caps))

efforts_for(caps, model) ==
    LET known == {m \in ToSet(caps.models) : m.id = model}
    IN IF known # {} THEN UNION {m.efforts : m \in known}
       ELSE IF caps.efforts # {} THEN caps.efforts
       ELSE UNION {m.efforts : m \in ToSet(caps.models)}

EffortOrder == [n \in 1..7 |-> n]       \* off, minimal, low, medium, high, xhigh, max

----------------------------------------------------------------------------
(* The daemon's validation *)

validate_settings_values(v, caps) ==
    /\ v.model # Unset => caps.free \/ Offered(caps, v.model)
    /\ v.effort # Unset => v.effort \in efforts_for(caps, v.model)
    /\ v.permission # Unset => v.permission \in ToSet(caps.modes)

validate_card_space(v) == v.kind = "new_workspace" => v.ref # Unset /\ v.cwd # Unset

validate_column_permission_override(mode) == mode # "bypassPermissions"

\* A column without a harness is validated when a card enters it.
Accepts(kind, v) ==
    IF kind = "card"
    THEN /\ KnownHarness(v.harness) /\ validate_card_space(v)
         /\ \E caps \in Checked[v.harness] : validate_settings_values(v, caps)
    ELSE /\ validate_column_permission_override(v.permission)
         /\ v.harness # Unset => /\ KnownHarness(v.harness)
                               /\ \E caps \in Checked[v.harness] : validate_settings_values(v, caps)

----------------------------------------------------------------------------
(* Building the fields *)

\* The selected option, or the first when it is not offered
SelectedOr(x, opts) == IF x \in ToSet(opts) THEN x ELSE opts[1]

With(opts, x) == IF x = Unset \/ x \in ToSet(opts) THEN opts ELSE Append(opts, x)

effective_caps(f, h) == IF f.caps = Unset THEN default_capabilities(h) ELSE f.caps

\* A mutant of use_custom: only if the option has been selected.
use_custom_if_selected(f, v) == f.caps # Unset /\ f.caps.free /\ v.custom

\* Whether the model is in the free text of `(custom)`.
use_custom(f, v) ==
    /\ f.caps # Unset /\ f.caps.free
    /\ v.custom \/ (v.model # Unset /\ ~Offered(f.caps, v.model))

effort_choice_opts(f, v) ==
    LET picked == IF f.caps # Unset /\ f.kind = "card" /\ ~use_custom(f, v) THEN v.model ELSE Unset
        h      == IF v.harness = Unset THEN Builtin[1] ELSE v.harness
    IN <<Unset>> \o Kept(EffortOrder, efforts_for(effective_caps(f, h), picked))

permission_choice_opts(f, v) ==
    LET h     == IF v.harness = Unset THEN Builtin[1] ELSE v.harness
        modes == effective_caps(f, h).modes
    IN <<Unset>> \o (IF f.kind = "card" THEN modes
                   ELSE Kept(modes, {m \in ToSet(modes) : validate_column_permission_override(m)}))

model_opts(f) == <<Unset>> \o Catalog(f.caps) \o (IF f.caps.free THEN <<Custom>> ELSE << >>)

\* The space reference is a selector over the open workspaces, or a text.
RefIsChoice(f, v) == v.kind = "workspace" /\ f.spaces # << >>
card_space_ref(v) == IF v.ref = Custom THEN v.typed ELSE v.ref

build_card_fields(f) ==
    LET v       == f.v
        custom  == use_custom(f, v)
        model   == IF f.caps = Unset \/ custom \/ Offered(f.caps, v.model) THEN v.model ELSE Unset
        ref     == card_space_ref(v)
        matched == ref \in ToSet(f.spaces)
        choice  == RefIsChoice(f, v)
    IN [f EXCEPT !.v =
         [v EXCEPT !.model = model, !.custom = custom,
                   !.effort = SelectedOr(@, effort_choice_opts(f, v)),
                   !.permission = SelectedOr(@, permission_choice_opts(f, v)),
                   !.ref = IF choice /\ ~matched
                           THEN (IF ref = Unset THEN f.spaces[1] ELSE Custom) ELSE ref,
                   !.typed = IF choice /\ ~matched THEN ref ELSE Unset]]

column_fields_from_values(f) ==
    [f EXCEPT !.v.effort = SelectedOr(@, effort_choice_opts(f, f.v)),
              !.v.permission = SelectedOr(@, permission_choice_opts(f, f.v))]

rebuild_fields(f) == IF f.kind = "card" THEN build_card_fields(f) ELSE column_fields_from_values(f)

\* A column's selectors are for its override, or else the default harness.
current_harness(f) == IF f.v.harness = Unset THEN Builtin[1] ELSE f.v.harness

\* The outcomes of fetching a form's options; what is not fetched stays.
load_form_options(f) ==
    LET session == IF f.kind = "card" THEN f.v.session ELSE Unset
        h       == current_harness(f)
        fetched == [caps : {Unset} \cup (IF KnownHarness(h) THEN Served[h] ELSE {}),
                    harnesses : {f.harnesses, Builtin \o Own},
                    spaces : {f.spaces} \cup (IF f.kind = "card" THEN {Spaces[session]} ELSE {}),
                    sessions : {f.sessions} \cup (IF f.kind = "card" THEN {Running} ELSE {})]
    IN {rebuild_fields([f EXCEPT !.caps = o.caps, !.harnesses = o.harnesses,
                                 !.spaces = o.spaces, !.sessions = o.sessions]) : o \in fetched}

----------------------------------------------------------------------------
(* Keys *)

Step(opts, x, d) ==                   \* d = 1 or Len(opts) - 1
    LET k == CHOOSE k \in DOMAIN opts : opts[k] = x IN opts[((k - 1 + d) % Len(opts)) + 1]

Touch(field) == /\ keys < MaxKeys /\ keys' = keys + 1
                /\ touched' = touched \cup {field} /\ UNCHANGED stored

Cycled(opts, x) == {Step(opts, x, 1), Step(opts, x, Len(opts) - 1)}

\* A key on the harness or the session reloads the options.
cycle_harness ==
    LET none == IF form.kind = "card" THEN << >> ELSE <<Unset>>
        opts == With(none \o form.harnesses, form.v.harness)
    IN /\ Touch("harness")
       /\ \E h \in Cycled(opts, form.v.harness) :
             form' \in load_form_options([form EXCEPT !.v.harness = h])

cycle_session ==
    /\ form.kind = "card" /\ Touch("session")
    /\ \E s \in Cycled(With(<<Unset>> \o form.sessions, form.v.session), form.v.session) :
          form' \in load_form_options([form EXCEPT !.v.session = s])

\* on_model_changed: a custom model starts empty.
cycle_model ==
    /\ form.kind = "card" /\ form.caps # Unset /\ Touch("model")
    /\ \E m \in Cycled(model_opts(form), IF form.v.custom THEN Custom ELSE form.v.model) :
          form' = build_card_fields([form EXCEPT !.v.custom = (m = Custom),
                                                 !.v.model = IF m = Custom THEN Unset ELSE m])

type_model(t) ==
    /\ form.kind = "card" => form.caps = Unset \/ form.v.custom
    /\ Touch("model") /\ form' = [form EXCEPT !.v.model = t]

cycle_effort ==
    /\ Touch("effort")
    /\ \E e \in Cycled(effort_choice_opts(form, form.v), form.v.effort) :
          form' = [form EXCEPT !.v.effort = e]

\* Hidden when the harness has no modes
permission_is_applicable == effective_caps(form, current_harness(form)).modes # << >>

cycle_permission ==
    /\ permission_is_applicable /\ Touch("permission")
    /\ \E p \in Cycled(permission_choice_opts(form, form.v), form.v.permission) :
          form' = [form EXCEPT !.v.permission = p]

cycle_space_kind ==
    /\ form.kind = "card" /\ Touch("kind")
    /\ form' = build_card_fields([form EXCEPT !.v.kind =
                   IF @ = "workspace" THEN "new_workspace" ELSE "workspace"])

cycle_space_ref ==
    /\ form.kind = "card" /\ RefIsChoice(form, form.v) /\ Touch("ref")
    /\ \E r \in Cycled(Append(form.spaces, Custom), form.v.ref) : form' = [form EXCEPT !.v.ref = r]

type_space_ref(t) ==
    /\ form.kind = "card" /\ (form.v.ref = Custom \/ ~RefIsChoice(form, form.v)) /\ Touch("ref")
    /\ form' = IF form.v.ref = Custom THEN [form EXCEPT !.v.typed = t] ELSE [form EXCEPT !.v.ref = t]

type_cwd(t) ==
    /\ form.kind = "card" /\ form.v.kind = "new_workspace" /\ Touch("cwd")
    /\ form' = [form EXCEPT !.v.cwd = t]

----------------------------------------------------------------------------
(* Opening, saving *)

\* The form is built before anything is fetched, then again with the answers.
Opened ==
    LET o == stored.of
        v == IF stored.kind = "column" THEN o
             ELSE [harness |-> o.harness, model |-> o.model, custom |-> FALSE, effort |-> o.effort,
                   permission |-> o.permission, session |-> o.session, kind |-> o.kind,
                   ref |-> o.ref, typed |-> Unset, cwd |-> o.cwd]
    IN rebuild_fields([kind |-> stored.kind, v |-> v, caps |-> Unset, harnesses |-> Builtin,
                       spaces |-> << >>, sessions |-> << >>])

OpenForm ==
    /\ form = Unset /\ form' \in load_form_options(Opened)
    /\ touched' = {} /\ UNCHANGED <<stored, keys>>

\* What a form submits: every setting, set or cleared.
Submitted(f) ==
    IF f.kind = "column" THEN f.v
    ELSE [harness |-> f.v.harness, model |-> f.v.model, effort |-> f.v.effort,
          permission |-> IF effective_caps(f, f.v.harness).modes = << >> THEN Unset ELSE f.v.permission,
          session |-> f.v.session, kind |-> f.v.kind, ref |-> card_space_ref(f.v),
          cwd |-> IF f.v.kind = "new_workspace" THEN f.v.cwd ELSE Unset]

preflight(f) ==
    IF f.kind = "card" THEN validate_card_space(Submitted(f))
    ELSE validate_column_permission_override(f.v.permission)

\* The form closes whether or not the daemon accepts the update.
Save ==
    /\ preflight(form) /\ form' = Unset /\ touched' = {} /\ UNCHANGED keys
    /\ \/ Accepts(form.kind, Submitted(form)) /\ stored' = [stored EXCEPT !.of = Submitted(form)]
       \/ UNCHANGED stored

close_form == form' = Unset /\ touched' = {} /\ UNCHANGED <<stored, keys>>

FormInit ==
    /\ stored \in {[kind |-> "card", of |-> c] : c \in StoredCards} \cup
                  {[kind |-> "column", of |-> c] : c \in StoredColumns}
    /\ form = Unset /\ touched = {} /\ keys = 0

FormNext ==
    \/ OpenForm
    \/ form # Unset /\ \/ Save \/ close_form
                       \/ cycle_harness \/ cycle_session \/ cycle_model \/ cycle_effort
                       \/ cycle_permission \/ cycle_space_kind \/ cycle_space_ref
                       \/ \E t \in Texts : type_model(t) \/ type_space_ref(t) \/ type_cwd(t)

FormSpec == FormInit /\ [][FormNext]_formVars

----------------------------------------------------------------------------
\* The settings whose selectors depend on a field
Affects(field) ==
    CASE field = "harness" -> {"harness", "model", "effort", "permission"}
      [] field = "model"   -> {"model", "effort"}
      [] field = "kind"    -> {"kind", "cwd"}
      [] OTHER             -> {field}

\* What the form may drop: a setting that a built-in harness, whatever it
\* answers, does not offer, and an override of no harness.
Droppable(s) ==
    LET h == s.of.harness
    IN IF h \notin ToSet(Builtin) \/ \E caps \in Served[h] : ~validate_settings_values(s.of, caps)
       THEN {"model", "effort", "permission"} ELSE {}

ValidStored(s) ==
    /\ DOMAIN s = {"kind", "of"}
    /\ \/ s.kind = "card" /\ ValidCard(s.of)
       \/ s.kind = "column" /\ ValidColumn(s.of)

\* A setting that no key of t has changed, nor one that it depends on, is in the
\* form what it is in s: while fetches fail, are made again and answer otherwise.
Untouched(s, f, t) ==
    /\ "harness" \notin t => /\ f.v.harness = s.of.harness
                             /\ s.of.harness \in ToSet(Builtin) =>
                                    f.caps \in {Unset} \cup Served[s.of.harness]
    /\ Droppable(s) = {} =>
        /\ t \cap {"harness", "model"} = {} => f.v.model = s.of.model
        /\ t \cap {"harness", "model", "effort"} = {} => f.v.effort = s.of.effort
        /\ t \cap {"harness", "permission"} = {} => f.v.permission = s.of.permission

UntouchedPlace(s, f, t) ==
    /\ "session" \notin t => f.v.session = s.of.session
    /\ "kind" \notin t => f.v.kind = s.of.kind
    /\ "cwd" \notin t => f.v.cwd = s.of.cwd
    /\ "ref" \notin t /\ s.of.ref # Unset => card_space_ref(f.v) = s.of.ref

FormOK(s, f, t) ==
    /\ DOMAIN f = {"kind", "v", "caps", "harnesses", "spaces", "sessions"}
    /\ f.kind = s.kind /\ Untouched(s, f, t)
    /\ f.kind = "column" => DOMAIN f.v = ColumnFields
    /\ f.kind = "card" =>
        /\ DOMAIN f.v = CardFields \cup {"custom", "typed"} /\ UntouchedPlace(s, f, t)
        /\ f.v.kind \in {"workspace", "new_workspace"} /\ f.v.typed # Custom

\* A selector is on one of its options.
OnOptions(f) ==
    /\ f.v.effort \in ToSet(effort_choice_opts(f, f.v))
    /\ f.v.permission \in ToSet(permission_choice_opts(f, f.v))
    /\ f.kind = "card" /\ RefIsChoice(f, f.v) => f.v.ref \in ToSet(f.spaces) \cup {Custom}
    /\ f.kind = "card" /\ f.caps # Unset /\ ~f.v.custom => f.v.model \in ToSet(model_opts(f))

\* What the fields of a form owe to what is stored; what SavesTouched rests on
FormInv == ValidStored(stored) /\ (form # Unset => FormOK(stored, form, touched))

FormTypeOK == FormInv /\ (form # Unset => OnOptions(form))

\* builders.rs, options.rs: what is saved differs from what was stored only in
\* what the user has changed and what depends on it, whichever fetches failed.
\* Excepted are the workspace of a card that names none, and the directory of a
\* card of an open workspace: the form hides it and saving clears it.
SavesTouched ==
    stored' # stored => \A s \in DOMAIN stored.of :
        \/ stored'.of[s] = stored.of[s]
        \/ \E field \in touched : s \in Affects(field)
        \/ s \in Droppable(stored)
        \/ s = "ref" /\ stored.of.ref = Unset /\ stored.of.kind = "workspace"
        \/ s = "cwd" /\ stored.of.kind = "workspace"

OnlyTouchedChange == [][SavesTouched]_formVars
=============================================================================

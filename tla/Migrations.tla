----------------------------- MODULE Migrations -----------------------------
(***************************************************************************)
(* Opening the store's file: the steps that bring its shape to the current *)
(* version, and a daemon that may stop between any two of them.  The file  *)
(* keeps its stamp (user_version) and the steps its shape has; the stamp   *)
(* is written once, after all of them.                                     *)
(*                                                                         *)
(* A step is what one transaction does.  The rows a step converts are left *)
(* out, and with them the refusal of a file that has two open runs of a    *)
(* card, which changes nothing.                                            *)
(***************************************************************************)
EXTENDS Naturals, FiniteSets

CONSTANTS
    Starts,    \* the stamps of the files the instance opens; 0 is a new file
    MaxStops   \* times the daemon stops while it opens the file

VARIABLES
    stamp,   \* PRAGMA user_version
    shape,   \* the steps the file's shape has
    step,    \* what the open does next
    stops

migVars == <<stamp, shape, step, stops>>

SCHEMA_VERSION == 16

\* A new file is made by statements of their own, in autocommit: the tables,
\* then the rows of Global, of its board and of its column.
Fresh == <<"tables", "project", "board", "column">>

\* v7 to v13 are one transaction; v15 is a statement for each of two tables.
Replay == <<"v2", "v3", "v4", "v5", "v6", "v7to13", "v14",
            "v15projects", "v15boards", "v16">>

VersionOf == [s \in {Replay[i] : i \in DOMAIN Replay} |->
    CASE s = "v2" -> 2 [] s = "v3" -> 3 [] s = "v4" -> 4 [] s = "v5" -> 5
      [] s = "v6" -> 6 [] s = "v7to13" -> 13 [] s = "v14" -> 14
      [] s \in {"v15projects", "v15boards"} -> 15 [] s = "v16" -> 16]

ReplaySteps == DOMAIN VersionOf
FreshSteps  == {Fresh[i] : i \in DOMAIN Fresh}
Complete    == ReplaySteps \cup {"amend"}

\* A mutant: the columns of v15 are added without a look at the shape.
GuardedButV15 == {"v7to13", "v14", "v16", "amend"}

\* Statements that look at the shape first, or that say IF NOT EXISTS.
Guarded == {"v7to13", "v14", "v15projects", "v15boards", "v16", "amend"}

\* Statements that build the cards table again from what it holds.
Rebuilds == {"v4", "v6"}

\* The shape a file stamped v has; schema.sql makes the shape of v16 amended.
ShapeAt(v) == IF v = 0 THEN {} ELSE {s \in ReplaySteps : VersionOf[s] <= v}

MigInit ==
    /\ stamp \in Starts
    /\ shape = ShapeAt(stamp)
    /\ step = "closed"
    /\ stops = 0

----------------------------------------------------------------------------
\* The steps after s of the chain the stamp asks for; "stamp" ends a chain.
After(s) ==
    LET chain == IF stamp = 0 THEN Fresh ELSE Replay
        later == {i \in DOMAIN chain :
                     /\ \A k \in DOMAIN chain : chain[k] = s => i > k
                     /\ stamp = 0 \/ VersionOf[chain[i]] > stamp}
    IN IF later = {} THEN "stamp"
       ELSE chain[CHOOSE i \in later : \A k \in later : i <= k]

\* The open reads the stamp once and starts the chain it asks for.
OpenFile ==
    /\ step = "closed"
    /\ step' = IF stamp = SCHEMA_VERSION THEN "amend" ELSE After("closed")
    /\ UNCHANGED <<stamp, shape, stops>>

\* A duplicate column or table refuses the statement, and with it the open.
Refused(s) == s \in shape /\ s \notin Guarded \cup Rebuilds

Migrate(s) ==
    /\ step = s
    /\ s \in FreshSteps \cup ReplaySteps
    /\ IF Refused(s)
       THEN step' = "refused" /\ UNCHANGED shape
       ELSE /\ step' = After(s)
            /\ shape' = CASE s = "v4" -> (shape \ {"v6"}) \cup {s}
                          [] s = "tables" -> shape \cup Complete \cup {s}
                          [] OTHER -> shape \cup {s}
    /\ UNCHANGED <<stamp, stops>>

Stamp ==
    /\ step = "stamp"
    /\ stamp' = SCHEMA_VERSION
    /\ step' = "amend"
    /\ UNCHANGED <<shape, stops>>

\* Whatever the stamp, the tables of v16 get what was added to them later.
amend_v16_local_state ==
    /\ step = "amend"
    /\ shape' = shape \cup {"amend"}
    /\ step' = "ready"
    /\ UNCHANGED <<stamp, stops>>

\* The daemon stops: what was committed stays.
Stop ==
    /\ step \notin {"closed", "refused"}
    /\ stops < MaxStops
    /\ stops' = stops + 1
    /\ step' = "closed"
    /\ UNCHANGED <<stamp, shape>>

MigNext ==
    \/ OpenFile
    \/ \E s \in FreshSteps \cup ReplaySteps : Migrate(s)
    \/ Stamp
    \/ amend_v16_local_state
    \/ Stop

MigSpec == MigInit /\ [][MigNext]_migVars

----------------------------------------------------------------------------
MigTypeOK ==
    /\ stamp \in 0..SCHEMA_VERSION
    /\ shape \subseteq FreshSteps \cup Complete
    /\ step \in FreshSteps \cup Complete \cup {"closed", "stamp", "ready", "refused"}
    /\ stops \in 0..MaxStops

\* db/migrations.rs migrate: "Idempotent."  An open that was interrupted does not
\* keep the next one from succeeding, for the files whose steps look at the shape
\* first: those stamped 6 or more.  Older files, and a new one, are refused then.
GuardedOpenRecovers == stamp >= 6 => step # "refused"

\* A stamp is never ahead of the shape: the file that is served has every step,
\* and a file stamped with the current version misses the amendment at most.
StampIsEarned ==
    /\ stamp = SCHEMA_VERSION => ReplaySteps \subseteq shape
    /\ step = "ready" => Complete \subseteq shape
=============================================================================

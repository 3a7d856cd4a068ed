---------------------------- MODULE LicenseBundle ----------------------------
(***************************************************************************)
(* cmd/license-bundle: the license files of the modules that go list names *)
(* are copied under modules/, and THIRD_PARTY_NOTICES.md is written with a *)
(* row per module.  The directory is removed first and the notices are     *)
(* written last; a run may fail or be killed anywhere in between, and the  *)
(* next one starts from what it left.                                      *)
(***************************************************************************)
EXTENDS FiniteSets

CONSTANTS
    Dependencies,   \* the modules there may be
    LicenseFiles    \* LicenseFiles[m]: the license-like names in its directory

ASSUME BundleAssumption == IsFiniteSet(Dependencies)

VARIABLES
    deps,      \* what go list names; changes between runs
    stage,     \* where a run is; "idle" between runs
    todo,      \* modules still to be copied
    found,     \* the run's slice notices
    modules,   \* files under modules/: modules[m] are the names in the directory of m
    notices,   \* the rows of THIRD_PARTY_NOTICES.md
    succeeded  \* the last run ended with exit code 0, and deps are the same since

bundleVars == <<deps, stage, todo, found, modules, notices, succeeded>>

NoFiles == [m \in Dependencies |-> {}]
Notice(m, refs) == [module |-> m, refs |-> refs, missing |-> refs = {}]

BundleInit ==
    /\ deps \in SUBSET Dependencies
    /\ stage = "idle"
    /\ todo = {} /\ found = {}
    /\ modules = NoFiles
    /\ notices = {}
    /\ succeeded = FALSE

\* go.mod is edited.
ChangeDeps ==
    /\ stage = "idle"
    /\ deps' \in SUBSET Dependencies
    /\ succeeded' = FALSE
    /\ UNCHANGED <<stage, todo, found, modules, notices>>

\* listModules; when the go command fails nothing was touched, see Stop.
ListModules ==
    /\ stage = "idle"
    /\ stage' = "listed"
    /\ todo' = deps
    /\ found' = {}
    /\ succeeded' = FALSE
    /\ UNCHANGED <<deps, modules, notices>>

\* Mutant: files of modules that are gone stay behind.
RemoveNothing ==
    /\ stage = "listed"
    /\ stage' = "copying"
    /\ UNCHANGED <<deps, todo, found, modules, notices, succeeded>>

\* os.RemoveAll(modulesDir), between two MkdirAll; it may stop halfway.
RemoveModules ==
    /\ stage = "listed"
    /\ \/ stage' = "copying" /\ modules' = NoFiles
       \/ /\ stage' = "idle"
          /\ modules' \in [Dependencies -> UNION {SUBSET modules[m] : m \in Dependencies}]
          /\ \A m \in Dependencies : modules'[m] \subseteq modules[m]
    /\ UNCHANGED <<deps, todo, found, notices, succeeded>>

\* copyModuleLicenses.  A directory that cannot be listed counts as one without
\* license files; a file that cannot be read or written ends the run with the
\* ones before it there, and perhaps a part of it.  The modules are sorted,
\* which nothing here sees.
CopyModule(m) ==
    /\ stage = "copying" /\ m \in todo
    /\ \/ \E refs \in {{}, LicenseFiles[m]} :
             /\ modules' = [modules EXCEPT ![m] = @ \cup refs]
             /\ found' = found \cup {Notice(m, refs)}
             /\ todo' = todo \ {m}
             /\ UNCHANGED stage
       \/ \E some \in SUBSET LicenseFiles[m] :
             /\ LicenseFiles[m] # {}
             /\ modules' = [modules EXCEPT ![m] = @ \cup some]
             /\ stage' = "idle"
             /\ UNCHANGED <<found, todo>>
    /\ UNCHANGED <<deps, notices, succeeded>>

\* The two WriteFile calls at the end of writeLicenseBundle.  The second cuts
\* the old notices off before it writes the new ones.
WriteNotices ==
    /\ stage = "copying" /\ todo = {}
    /\ stage' = "idle"
    /\ \/ notices' = found /\ succeeded' = TRUE
       \/ notices' \in SUBSET found /\ UNCHANGED succeeded
    /\ UNCHANGED <<deps, todo, found, modules>>

\* The go command fails, or the run is killed.
Stop ==
    /\ stage # "idle"
    /\ stage' = "idle"
    /\ UNCHANGED <<deps, todo, found, modules, notices, succeeded>>

BundleNext ==
    \/ ChangeDeps \/ ListModules \/ RemoveModules \/ WriteNotices \/ Stop
    \/ \E m \in Dependencies : CopyModule(m)

BundleSpec == BundleInit /\ [][BundleNext]_bundleVars

-----------------------------------------------------------------------------
(***************************************************************************)
(* After a run that succeeded, whatever earlier runs and failures left on  *)
(* disk, the bundle is that of the current modules: a row for each and for *)
(* no other, every file a row names is there, every file there is named by *)
(* a row, and a row is marked for review when it names none.               *)
(***************************************************************************)
BundleExact ==
    succeeded =>
        /\ {r.module : r \in notices} = deps
        /\ Cardinality(notices) = Cardinality(deps)
        /\ \A m \in Dependencies : modules[m] = UNION {r.refs : r \in {n \in notices : n.module = m}}
        /\ \A r \in notices : r.missing = (r.refs = {})

=============================================================================

------------------------------ MODULE TestData ------------------------------
(***************************************************************************)
(* The data of the single-step tests (tests/common/data.rs) and the run    *)
(* that goes through them (run_suite in single_step.rs): two archives are  *)
(* looked for, then two directories, and what is found is used for every   *)
(* opcode, or the run fails.  Meanwhile the files may come, go and change. *)
(* An archive that was opened stays as it was (files are replaced, not     *)
(* overwritten); a directory is read anew for each opcode.                 *)
(***************************************************************************)
EXTENDS SequencesExt, Integers

CONSTANTS
    Opcodes,      \* a sequence: the opcodes of the run
    Archives,     \* the states an archive may be in
    Directories,  \* the states a directory may be in
    MaxChanges    \* bound: the changes of files in one behaviour

ASSUME RunAssumption == Opcodes \in Seq(ToSet(Opcodes))

\* A state is [state, suites]: "missing" (for a directory also: without the suite in it),
\* "found" or "broken", which stands for all other errors (no permission, not a ZIP, not a
\* directory); and the suite at each root, for a directory at "here".  A suite is
\* [listed, json], json giving "bad" or "cases" for the opcodes it has a file of.
ROOTS == << "65x02", "65x02-main" >>
Places == << "65x02.zip", "65x02-main.zip", "65x02", "65x02-main" >>
IsArchive(place) == place \in {"65x02.zip", "65x02-main.zip"}
StateOf(place) == IF IsArchive(place) THEN Archives ELSE Directories

VARIABLES
    files,    \* place -> its state
    stage,    \* "opening", "running", "passed" or "failed"
    probed,   \* how many places open_in has passed over
    place,    \* where the data comes from
    suite,    \* the suite of the archive that is open, at the root chosen
    tested,   \* history: where the cases of each opcode came from
    steady,   \* history: the places nobody has touched since the start
    changes   \* counts up to MaxChanges

testVars == << files, stage, probed, place, suite, tested, steady, changes >>

NoSuite == [listed |-> FALSE, json |-> << >>]
TestInit ==
    /\ files \in {f \in [ToSet(Places) -> Archives \cup Directories] :
                      \A name \in DOMAIN f : f[name] \in StateOf(name)}
    /\ stage = "opening" /\ probed = 0 /\ place = "none" /\ suite = NoSuite
    /\ tested = << >> /\ steady = ToSet(Places) /\ changes = 0

Goes(to) == stage' = to /\ UNCHANGED << files, probed, place, suite, tested, steady, changes >>

-----------------------------------------------------------------------------
(* open_in(), one place after the other.                                   *)

Candidate == Places[probed + 1]
Looks == stage = "opening" /\ probed < Len(Places)
Listed(state) == {i \in 1..Len(ROOTS) : state.suites[ROOTS[i]].listed}
Usable(state) == state.state = "found" /\ (IsArchive(Candidate) => Listed(state) # {})
FirstListed(state) == state.suites[ROOTS[CHOOSE i \in Listed(state) : \A j \in Listed(state) : i <= j]]

\* Mutant: what cannot be used is passed over like what is missing.
PassedOverIfUnusable(state) == ~Usable(state)
PassedOver(state) == state.state = "missing"

LookFurther ==
    /\ Looks /\ PassedOver(files[Candidate])
    /\ probed' = probed + 1
    /\ UNCHANGED << files, stage, place, suite, tested, steady, changes >>

Select ==
    /\ Looks /\ ~PassedOver(files[Candidate]) /\ Usable(files[Candidate])
    /\ place' = Candidate
    /\ suite' = IF IsArchive(Candidate) THEN FirstListed(files[Candidate]) ELSE NoSuite
    /\ stage' = "running"
    /\ UNCHANGED << files, probed, tested, steady, changes >>

OpenFails ==
    /\ stage = "opening"
    /\ Looks => ~PassedOver(files[Candidate]) /\ ~Usable(files[Candidate])
    /\ Goes("failed")

-----------------------------------------------------------------------------
(* load() and run_suite().                                                 *)

Opcode == Opcodes[Len(tested) + 1]
\* Mutant: an opcode the archive lacks is looked for in a directory.
LoadsFromElsewhere ==
    IF IsArchive(place) /\ Opcode \notin DOMAIN suite.json THEN "65x02" ELSE place
LoadsFrom == place

HasCases ==
    LET json == IF IsArchive(LoadsFrom) THEN suite.json
                ELSE IF files[LoadsFrom].state = "found" THEN files[LoadsFrom].suites["here"].json
                ELSE << >>
    IN  Opcode \in DOMAIN json /\ json[Opcode] = "cases"

Loads == stage = "running" /\ Len(tested) < Len(Opcodes)
RunOpcode ==
    /\ Loads /\ HasCases
    /\ tested' = Append(tested, LoadsFrom)
    /\ UNCHANGED << files, stage, probed, place, suite, steady, changes >>
LoadFails == Loads /\ ~HasCases /\ Goes("failed")
Passes == stage = "running" /\ Len(tested) = Len(Opcodes) /\ Goes("passed")

\* Somebody adds, removes or replaces a file.
FilesChange ==
    /\ changes < MaxChanges /\ changes' = changes + 1
    /\ \E name \in ToSet(Places) : \E new \in StateOf(name) :
          files' = [files EXCEPT ![name] = new] /\ steady' = steady \ {name}
    /\ UNCHANGED << stage, probed, place, suite, tested >>

RunStep == LookFurther \/ Select \/ OpenFails \/ RunOpcode \/ LoadFails \/ Passes
TestSpec == TestInit /\ [][RunStep \/ FilesChange]_testVars

-----------------------------------------------------------------------------

\* The cases of a run all come from one place, the first that was there when open_in
\* looked, whatever is added, removed or replaced later and whatever that place lacks.
OneSource ==
    /\ ToSet(tested) \subseteq {place}
    /\ place # "none" => place = Candidate

\* The first place that is there, if nobody has touched it or those before it
FirstThere(i) ==
    /\ \A j \in 1..i : Places[j] \in steady
    /\ \A j \in 1..(i - 1) : files[Places[j]].state = "missing"
    /\ files[Places[i]].state # "missing"

\* Whether a place can be used and has cases for every opcode: for an archive with two
\* roots, in the suite of the first of them.
Complete(name) ==
    LET there == files[name]
        root == IF ~IsArchive(name) THEN "here"
                ELSE IF there.suites[ROOTS[1]].listed THEN ROOTS[1] ELSE ROOTS[2]
        json == there.suites[root].json
    IN  /\ there.state = "found"
        /\ IsArchive(name) => there.suites[root].listed
        /\ \A i \in 1..Len(Opcodes) : Opcodes[i] \in DOMAIN json /\ json[Opcodes[i]] = "cases"

\* The first place that is there decides the run, alone: a run that ends has passed if that
\* place is readable and complete, and has failed if it is not, whatever the places behind
\* it have to offer, and whatever is done to them while the run is under way.  Where there
\* is none, nothing passes.
FirstPlaceDecides ==
    /\ \A i \in 1..Len(Places) : FirstThere(i) =>
          /\ place \in {"none", Places[i]}
          /\ stage = "passed" => Complete(Places[i])
          /\ stage = "failed" => ~Complete(Places[i])
    /\ (\A name \in ToSet(Places) : name \in steady /\ files[name].state = "missing") =>
          stage # "passed" /\ place = "none"
=============================================================================

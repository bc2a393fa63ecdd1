-------------------------- MODULE TestData_proofs --------------------------
(***************************************************************************)
(* Proofs about TestData: for every sequence of opcodes, every set of      *)
(* states of the files and any number of changes, the cases of a run come  *)
(* from one place, and the first place that is there decides how it ends.  *)
(***************************************************************************)
EXTENDS TestData, TLAPS

PlaceName == ToSet(Places) \cup {"none"}

(* OneSource alone is not kept by Select, which changes the place: nothing  *)
(* may have been loaded by then.  Nor by LookFurther, which changes what    *)
(* Candidate means: the place must still be unknown.                        *)
SourceInv ==
    /\ probed \in 0 .. Len(Places)
    /\ place \in PlaceName
    /\ tested \in Seq(PlaceName)
    /\ stage = "opening" => place = "none" /\ tested = << >>
    /\ OneSource

\* There are four places, and each is one of Places.
LEMMA PlacesListed ==
    /\ Len(Places) = 4
    /\ \A i \in 1 .. 4 : Places[i] \in ToSet(Places)
    /\ "none" \notin ToSet(Places)
BY DEF Places, ToSet

\* What a sequence holds after one more element was appended to it.
LEMMA AppendedSet ==
    ASSUME NEW S, NEW s \in Seq(S), NEW e \in S
    PROVE  Append(s, e) \in Seq(S) /\ ToSet(Append(s, e)) \subseteq ToSet(s) \cup {e}
<1>1. Append(s, e) \in Seq(S) /\ Len(Append(s, e)) = Len(s) + 1
    OBVIOUS
<1>2. \A i \in 1 .. Len(s) + 1 : Append(s, e)[i] = IF i = Len(s) + 1 THEN e ELSE s[i]
    OBVIOUS
<1>3. DOMAIN s = 1 .. Len(s) /\ DOMAIN Append(s, e) = 1 .. Len(s) + 1
    BY <1>1
<1>4. ASSUME NEW i \in 1 .. Len(s) + 1
      PROVE  Append(s, e)[i] \in ToSet(s) \cup {e}
    <2>1. CASE i = Len(s) + 1
        BY <2>1, <1>2
    <2>2. CASE i # Len(s) + 1
        <3>1. i \in DOMAIN s
            BY <2>2, <1>3
        <3>2. Append(s, e)[i] = s[i]
            BY <2>2, <1>2
        <3> QED
            BY <3>1, <3>2 DEF ToSet
    <2> QED
        BY <2>1, <2>2
<1> QED
    BY <1>1, <1>3, <1>4 DEF ToSet

LEMMA SourceInit == TestInit => SourceInv
<1> SUFFICES ASSUME TestInit PROVE SourceInv
    OBVIOUS
<1>1. probed = 0 /\ place = "none" /\ tested = << >>
    BY DEF TestInit
<1>2. ToSet(tested) = {}
    BY <1>1 DEF ToSet
<1> QED
    BY <1>1, <1>2, PlacesListed DEF SourceInv, PlaceName, OneSource

LEMMA SourceStep == SourceInv /\ [RunStep \/ FilesChange]_testVars => SourceInv'
<1> SUFFICES ASSUME SourceInv, [RunStep \/ FilesChange]_testVars PROVE SourceInv'
    OBVIOUS
<1> USE DEF SourceInv
<1>1. CASE LookFurther
    <2>1. /\ stage = "opening" /\ probed < Len(Places) /\ probed' = probed + 1
          /\ UNCHANGED << stage, place, tested >>
        BY <1>1 DEF LookFurther, Looks
    <2> QED
        BY <2>1, PlacesListed DEF OneSource
<1>2. CASE Select
    <2>1. /\ stage = "opening" /\ probed < Len(Places) /\ stage' = "running"
          /\ place' = Candidate /\ UNCHANGED << probed, tested >>
        BY <1>2 DEF Select, Looks
    <2>2. Candidate' = Candidate /\ Candidate \in ToSet(Places)
        BY <2>1, PlacesListed DEF Candidate
    <2>3. ToSet(tested') = {}
        BY <2>1 DEF ToSet
    <2> QED
        BY <2>1, <2>2, <2>3 DEF OneSource, PlaceName
<1>3. CASE RunOpcode
    <2>1. /\ stage = "running" /\ tested' = Append(tested, place)
          /\ UNCHANGED << stage, probed, place >>
        BY <1>3 DEF RunOpcode, Loads, LoadsFrom
    <2>2. tested' \in Seq(PlaceName) /\ ToSet(tested') \subseteq ToSet(tested) \cup {place}
        BY <2>1, AppendedSet
    <2> QED
        BY <2>1, <2>2 DEF OneSource, Candidate
<1>4. CASE OpenFails \/ LoadFails \/ Passes
    <2>1. stage' # "opening" /\ UNCHANGED << probed, place, tested >>
        BY <1>4 DEF OpenFails, LoadFails, Passes, Goes
    <2> QED
        BY <2>1 DEF OneSource, Candidate
<1>5. CASE FilesChange \/ UNCHANGED testVars
    <2>1. UNCHANGED << stage, probed, place, tested >>
        BY <1>5 DEF FilesChange, testVars
    <2> QED
        BY <2>1 DEF OneSource, Candidate
<1> QED
    BY <1>1, <1>2, <1>3, <1>4, <1>5 DEF RunStep

-----------------------------------------------------------------------------

\* The cases of a run (run_suite) all come from the place open_in stopped at, whichever
\* opcodes are run, whatever the files look like and however often they change meanwhile.
THEOREM CasesHaveOneSource == TestSpec => []OneSource
<1>1. SourceInv => OneSource
    BY DEF SourceInv
<1> QED
    BY <1>1, SourceInit, SourceStep, PTL DEF TestSpec

-----------------------------------------------------------------------------
(* The first place decides.                                                 *)

\* The suite that is used of a place, and whether it has cases for the k-th opcode
SuiteAt(name) ==
    files[name].suites[IF ~IsArchive(name) THEN "here"
                       ELSE IF files[name].suites[ROOTS[1]].listed THEN ROOTS[1] ELSE ROOTS[2]]
Readable(name) ==
    files[name].state = "found" /\ (IsArchive(name) => SuiteAt(name).listed)
CasesFor(name, k) ==
    Opcodes[k] \in DOMAIN SuiteAt(name).json /\ SuiteAt(name).json[Opcodes[k]] = "cases"

(* Where a run has got to when the place decides: it has not looked past    *)
(* it; once it runs, it has chosen it and loaded from it all it has; and it *)
(* ends as the place says.                                                  *)
Decided(name) ==
    /\ stage = "opening" => place = "none"
    /\ stage \in {"running", "passed"} =>
          /\ place = name /\ Readable(name)
          /\ IsArchive(name) => suite = SuiteAt(name)
          /\ \A k \in 1 .. Len(tested) : CasesFor(name, k)
    /\ stage = "passed" => Len(tested) = Len(Opcodes)
    /\ stage = "failed" => place \in {"none", name} /\ ~Complete(name)
NothingThere == \A name \in ToSet(Places) : name \in steady /\ files[name].state = "missing"
DecideInv ==
    /\ SourceInv
    /\ DOMAIN files = ToSet(Places)
    /\ stage \in {"opening", "running", "passed", "failed"}
    /\ Len(tested) <= Len(Opcodes)
    /\ \A i \in 1 .. 4 : FirstThere(i) => probed < i /\ Decided(Places[i])
    /\ NothingThere => stage \in {"opening", "failed"} /\ place = "none"

LEMMA CompleteIs ==
    ASSUME NEW name
    PROVE  Complete(name) <=> /\ Readable(name)
                              /\ \A k \in 1 .. Len(Opcodes) : CasesFor(name, k)
BY DEF Complete, Readable, CasesFor, SuiteAt

\* The archive's suite that Select takes is the one at the first root that has one.
LEMMA ChosenSuite ==
    ASSUME NEW name, IsArchive(name)
    PROVE  /\ Listed(files[name]) # {} <=> SuiteAt(name).listed
           /\ Listed(files[name]) # {} => FirstListed(files[name]) = SuiteAt(name)
<1> DEFINE state == files[name]
           first == CHOOSE i \in Listed(state) : \A j \in Listed(state) : i <= j
<1>1. Len(ROOTS) = 2
    BY DEF ROOTS
<1>2. /\ 1 \in Listed(state) <=> state.suites[ROOTS[1]].listed
      /\ 2 \in Listed(state) <=> state.suites[ROOTS[2]].listed
      /\ Listed(state) \subseteq {1, 2}
    BY <1>1 DEF Listed
<1>3. CASE 1 \in Listed(state)
    <2>1. first = 1
        BY <1>2, <1>3
    <2> QED
        BY <1>2, <1>3, <2>1 DEF FirstListed, SuiteAt
<1>4. CASE 1 \notin Listed(state) /\ 2 \in Listed(state)
    <2>1. first = 2
        BY <1>2, <1>4
    <2> QED
        BY <1>2, <1>4, <2>1 DEF FirstListed, SuiteAt
<1>5. CASE Listed(state) = {}
    BY <1>2, <1>5 DEF SuiteAt
<1> QED
    BY <1>2, <1>3, <1>4, <1>5

\* In the search, the place looked at is the one that decides, or one before it.
LEMMA CandidateDecides ==
    ASSUME probed \in 0 .. 4, NEW i \in 1 .. 4, FirstThere(i), probed < i
    PROVE  /\ Looks <=> stage = "opening"
           /\ PassedOver(files[Candidate]) <=> probed + 1 < i
           /\ probed + 1 = i => Candidate = Places[i]
           /\ Candidate = Places[i] => (Usable(files[Candidate]) <=> Readable(Places[i]))
<1>1. probed + 1 \in 1 .. i
    OBVIOUS
<1>2. Looks <=> stage = "opening"
    BY PlacesListed DEF Looks
<1>3. PassedOver(files[Candidate]) <=> probed + 1 < i
    BY <1>1 DEF FirstThere, Candidate, PassedOver
<1>4. ASSUME Candidate = Places[i]
      PROVE  Usable(files[Candidate]) <=> Readable(Places[i])
    BY <1>4, ChosenSuite DEF Usable, Readable
<1> QED
    BY <1>2, <1>3, <1>4 DEF Candidate

\* What is loaded for the next opcode are the cases of the place that decides.
LEMMA LoadsWhatDecides ==
    ASSUME NEW name, Decided(name), stage = "running"
    PROVE  HasCases <=> CasesFor(name, Len(tested) + 1)
<1>1. place = name /\ Readable(name) /\ (IsArchive(name) => suite = SuiteAt(name))
    BY DEF Decided
<1> QED
    BY <1>1 DEF HasCases, LoadsFrom, CasesFor, Opcode, Readable, SuiteAt

\* What holds of a place depends on its own state only.
LEMMA SameFile ==
    ASSUME NEW name, files'[name] = files[name]
    PROVE  /\ SuiteAt(name)' = SuiteAt(name)
           /\ Readable(name)' <=> Readable(name)
           /\ Complete(name)' <=> Complete(name)
           /\ \A k : CasesFor(name, k)' <=> CasesFor(name, k)
BY DEF SuiteAt, Readable, Complete, CasesFor, IsArchive

LEMMA DecideInit == TestInit => DecideInv
<1> SUFFICES ASSUME TestInit PROVE DecideInv
    OBVIOUS
<1>1. /\ probed = 0 /\ place = "none" /\ tested = << >> /\ stage = "opening"
      /\ DOMAIN files = ToSet(Places)
    BY DEF TestInit
<1>2. Len(tested) = 0 /\ Len(Opcodes) \in Nat
    BY <1>1, RunAssumption
<1> QED
    BY <1>1, <1>2, SourceInit DEF DecideInv, Decided

LEMMA DecideStep == DecideInv /\ [RunStep \/ FilesChange]_testVars => DecideInv'
<1> SUFFICES ASSUME DecideInv, [RunStep \/ FilesChange]_testVars PROVE DecideInv'
    OBVIOUS
<1> USE PlacesListed
<1>1. SourceInv' /\ SourceInv
    BY SourceStep DEF DecideInv
<1>2. /\ probed \in 0 .. 4 /\ Len(tested) \in Nat /\ Len(Opcodes) \in Nat
      /\ \A i \in 1 .. 4 : FirstThere(i) => probed < i /\ Decided(Places[i])
      /\ Len(tested) <= Len(Opcodes)
      /\ tested \in Seq(PlaceName)
    BY <1>1, RunAssumption DEF DecideInv, SourceInv
<1>3. ASSUME UNCHANGED << files, steady >>
      PROVE  /\ \A i \in 1 .. 4 : FirstThere(i)' <=> FirstThere(i)
             /\ \A name : /\ SuiteAt(name)' = SuiteAt(name)
                          /\ Readable(name)' <=> Readable(name)
                          /\ Complete(name)' <=> Complete(name)
                          /\ \A k : CasesFor(name, k)' <=> CasesFor(name, k)
             /\ NothingThere' <=> NothingThere
    BY <1>3, SameFile DEF FirstThere, NothingThere
<1>4. CASE LookFurther
    <2>1. /\ Looks /\ PassedOver(files[Candidate]) /\ probed' = probed + 1
          /\ UNCHANGED << files, stage, place, suite, tested, steady >>
        BY <1>4 DEF LookFurther
    <2>2. ASSUME NEW i \in 1 .. 4, FirstThere(i)' PROVE probed' < i /\ Decided(Places[i])'
        <3>1. FirstThere(i) /\ probed < i /\ Decided(Places[i])
            BY <1>2, <1>3, <2>1, <2>2
        <3>2. probed + 1 < i
            BY <1>2, <2>1, <3>1, CandidateDecides
        <3> QED
            BY <1>3, <2>1, <3>1, <3>2 DEF Decided
    <2> QED
        BY <1>1, <1>3, <2>1, <2>2 DEF DecideInv
<1>5. CASE Select
    <2>1. /\ Looks /\ ~PassedOver(files[Candidate]) /\ Usable(files[Candidate])
          /\ place' = Candidate /\ stage' = "running"
          /\ suite' = IF IsArchive(Candidate) THEN FirstListed(files[Candidate]) ELSE NoSuite
          /\ UNCHANGED << files, probed, tested, steady >>
        BY <1>5 DEF Select
    <2>2. Len(tested) = 0 /\ stage = "opening"
        BY <1>1, <2>1 DEF SourceInv, Looks
    <2>3. ASSUME NEW i \in 1 .. 4, FirstThere(i)' PROVE probed' < i /\ Decided(Places[i])'
        <3>1. FirstThere(i) /\ probed < i
            BY <1>2, <1>3, <2>1, <2>3
        <3>2. probed + 1 = i
            BY <1>2, <2>1, <3>1, CandidateDecides
        <3>3. Candidate = Places[i] /\ Readable(Places[i])
            BY <1>2, <2>1, <3>1, <3>2, CandidateDecides
        <3>4. IsArchive(Places[i]) => suite' = SuiteAt(Places[i])
            BY <2>1, <3>3, ChosenSuite DEF Readable
        <3> QED
            BY <1>3, <2>1, <2>2, <3>1, <3>3, <3>4 DEF Decided
    <2>4. ~NothingThere
        <3>1. Candidate \in ToSet(Places)
            BY <1>2, <2>1 DEF Candidate, Looks
        <3> QED
            BY <2>1, <3>1 DEF NothingThere, PassedOver
    <2> QED
        BY <1>1, <1>3, <2>1, <2>3, <2>4 DEF DecideInv
<1>6. CASE OpenFails
    <2>1. /\ stage = "opening" /\ stage' = "failed"
          /\ Looks => ~PassedOver(files[Candidate]) /\ ~Usable(files[Candidate])
          /\ UNCHANGED << files, probed, place, suite, tested, steady >>
        BY <1>6 DEF OpenFails, Goes
    <2>2. ASSUME NEW i \in 1 .. 4, FirstThere(i)' PROVE probed' < i /\ Decided(Places[i])'
        <3>1. FirstThere(i) /\ probed < i /\ place = "none"
            BY <1>2, <1>3, <2>1, <2>2 DEF Decided
        <3>2. probed + 1 = i
            BY <1>2, <2>1, <3>1, CandidateDecides
        <3>3. ~Readable(Places[i])
            BY <1>2, <2>1, <3>1, <3>2, CandidateDecides
        <3>4. ~Complete(Places[i])
            BY <3>3, CompleteIs
        <3> QED
            BY <1>3, <2>1, <3>1, <3>4 DEF Decided
    <2> QED
        BY <1>1, <1>3, <2>1, <2>2 DEF DecideInv
<1>7. CASE RunOpcode
    <2>1. /\ stage = "running" /\ Len(tested) < Len(Opcodes) /\ HasCases
          /\ tested' = Append(tested, LoadsFrom)
          /\ UNCHANGED << files, stage, probed, place, suite, steady >>
        BY <1>7 DEF RunOpcode, Loads
    <2>2. Len(tested') = Len(tested) + 1
        BY <1>2, <2>1 DEF SourceInv
    <2>3. ASSUME NEW i \in 1 .. 4, FirstThere(i)' PROVE probed' < i /\ Decided(Places[i])'
        <3>1. FirstThere(i) /\ probed < i /\ Decided(Places[i])
            BY <1>2, <1>3, <2>1, <2>3
        <3>2. CasesFor(Places[i], Len(tested) + 1)
            BY <2>1, <3>1, LoadsWhatDecides
        <3>3. \A k \in 1 .. Len(tested') : CasesFor(Places[i], k)
            BY <1>2, <2>1, <2>2, <3>1, <3>2 DEF Decided
        <3> QED
            BY <1>3, <2>1, <3>1, <3>3 DEF Decided
    <2> QED
        BY <1>1, <1>2, <1>3, <2>1, <2>2, <2>3 DEF DecideInv
<1>8. CASE LoadFails
    <2>1. /\ stage = "running" /\ Len(tested) < Len(Opcodes) /\ ~HasCases /\ stage' = "failed"
          /\ UNCHANGED << files, probed, place, suite, tested, steady >>
        BY <1>8 DEF LoadFails, Loads, Goes
    <2>2. ASSUME NEW i \in 1 .. 4, FirstThere(i)' PROVE probed' < i /\ Decided(Places[i])'
        <3>1. FirstThere(i) /\ probed < i /\ Decided(Places[i]) /\ place = Places[i]
            BY <1>2, <1>3, <2>1, <2>2 DEF Decided
        <3>2. ~CasesFor(Places[i], Len(tested) + 1)
            BY <2>1, <3>1, LoadsWhatDecides
        <3>3. ~Complete(Places[i])
            BY <1>2, <2>1, <3>2, CompleteIs
        <3> QED
            BY <1>3, <2>1, <3>1, <3>3 DEF Decided
    <2> QED
        BY <1>1, <1>3, <2>1, <2>2 DEF DecideInv
<1>9. CASE Passes
    <2>1. /\ stage = "running" /\ Len(tested) = Len(Opcodes) /\ stage' = "passed"
          /\ UNCHANGED << files, probed, place, suite, tested, steady >>
        BY <1>9 DEF Passes, Goes
    <2>2. ASSUME NEW i \in 1 .. 4, FirstThere(i)' PROVE probed' < i /\ Decided(Places[i])'
        BY <1>2, <1>3, <2>1, <2>2 DEF Decided
    <2> QED
        BY <1>1, <1>3, <2>1, <2>2 DEF DecideInv
<1>10. CASE FilesChange
    <2>1. PICK name \in ToSet(Places) :
              /\ \E new \in StateOf(name) : files' = [files EXCEPT ![name] = new]
              /\ steady' = steady \ {name}
        BY <1>10 DEF FilesChange
    <2>2. UNCHANGED << stage, probed, place, suite, tested >>
        BY <1>10 DEF FilesChange
    <2>3. DOMAIN files = ToSet(Places)
        BY DEF DecideInv
    <2>4. DOMAIN files' = ToSet(Places)
          /\ \A other \in ToSet(Places) : other # name => files'[other] = files[other]
        BY <2>1, <2>3
    <2>5. ASSUME NEW i \in 1 .. 4, FirstThere(i)' PROVE probed' < i /\ Decided(Places[i])'
        <3>1. \A j \in 1 .. i : Places[j] \in steady /\ Places[j] # name
            BY <2>1, <2>5 DEF FirstThere, Places
        <3>2. \A j \in 1 .. i : files'[Places[j]] = files[Places[j]]
            BY <2>4, <3>1
        <3>3. FirstThere(i)
            BY <2>5, <3>1, <3>2 DEF FirstThere
        <3>4. files'[Places[i]] = files[Places[i]]
            BY <3>2
        <3> QED
            BY <1>2, <2>2, <3>3, <3>4, SameFile DEF Decided
    <2>6. ~NothingThere'
        BY <2>1 DEF NothingThere
    <2> QED
        BY <1>1, <2>2, <2>4, <2>5, <2>6 DEF DecideInv
<1>11. CASE UNCHANGED testVars
    <2>1. UNCHANGED << files, stage, probed, place, suite, tested, steady >>
        BY <1>11 DEF testVars
    <2>2. ASSUME NEW i \in 1 .. 4, FirstThere(i)' PROVE probed' < i /\ Decided(Places[i])'
        BY <1>2, <1>3, <2>1, <2>2 DEF Decided
    <2> QED
        BY <1>1, <1>3, <2>1, <2>2 DEF DecideInv
<1> QED
    BY <1>4, <1>5, <1>6, <1>7, <1>8, <1>9, <1>10, <1>11 DEF RunStep

\* A run ends as the first place that is there says: it passes if that place is readable and
\* complete, and fails if not, for all opcodes and files, and however often the files of the
\* places behind it come, go or change while the run looks and loads.
THEOREM TheFirstPlaceDecides == TestSpec => []FirstPlaceDecides
<1>1. ASSUME DecideInv PROVE FirstPlaceDecides
    <2>1. ASSUME NEW i \in 1 .. 4, FirstThere(i)
          PROVE  /\ place \in {"none", Places[i]}
                 /\ stage = "passed" => Complete(Places[i])
                 /\ stage = "failed" => ~Complete(Places[i])
        <3>1. Decided(Places[i]) /\ stage \in {"opening", "running", "passed", "failed"}
            BY <1>1, <2>1 DEF DecideInv
        <3>2. stage = "passed" => Complete(Places[i])
            BY <3>1, CompleteIs DEF Decided
        <3> QED
            BY <3>1, <3>2 DEF Decided
    <2>2. NothingThere => stage # "passed" /\ place = "none"
        BY <1>1 DEF DecideInv
    <2> QED
        BY <2>1, <2>2, PlacesListed DEF FirstPlaceDecides, NothingThere
<1> QED
    BY <1>1, DecideInit, DecideStep, PTL DEF TestSpec
=============================================================================

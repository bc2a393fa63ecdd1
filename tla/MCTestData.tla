----------------------------- MODULE MCTestData -----------------------------
EXTENDS TestData, TLC
Two == << "a9", "00" >>
Suite(json) == [listed |-> TRUE, json |-> json]
Whole == Suite("a9" :> "cases" @@ "00" :> "cases")
Partial == Suite("a9" :> "cases")
Wrong == Suite("a9" :> "cases" @@ "00" :> "bad")
At(first, second) == [state |-> "found", suites |-> ("65x02" :> first @@ "65x02-main" :> second)]
Unusable == {[state |-> "missing", suites |-> << >>], [state |-> "broken", suites |-> << >>]}
SomeArchives ==
    Unusable \cup {At(NoSuite, NoSuite), At(NoSuite, Whole), At(Partial, Whole), At(Wrong, NoSuite)}
SomeDirectories ==
    Unusable \cup {[state |-> "found", suites |-> ("here" :> s)] : s \in {Whole, Partial}}
=============================================================================

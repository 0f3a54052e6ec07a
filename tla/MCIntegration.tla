--------------------------- MODULE MCIntegration ---------------------------
(***************************************************************************)
(* Three tests, two engines in a child process, one of them Java's, and    *)
(* every mix of tests that are valid, invalid, ignored or wrong.           *)
(***************************************************************************)
EXTENDS IntegrationSafety

ThreeTests == <<"t1", "t2", "t3">>
TwoTests == <<"t1", "t2">>
TwoChildren == <<"js", "java">>

SafeJobs ==
  {[call |-> "js", regex |-> <<line>>] : line \in Lines}
    \cup {[call |-> "java", regex |-> <<"invalid">>]}
    \cup {[call |-> "native", regex |-> <<"invalid">>]}
    \cup {[call |-> kind, regex |-> <<"valid">>] : kind \in Local}

\* Blank lines for Java, and regexes of two lines.
AllJobs ==
  SafeJobs \cup {[call |-> "java", regex |-> <<"blank">>],
                 [call |-> "js", regex |-> <<"valid", "invalid">>]}
=============================================================================

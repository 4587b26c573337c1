------------------------------- MODULE MCRunTests -------------------------------
(***************************************************************************)
(* The environments that RunTests is checked with: their version is set by *)
(* the script.                                                             *)
(***************************************************************************)
EXTENDS RunTests

Both == <<"TestIstioCsr", "TestPluginCaCert">>
Environments == {Environment(Both, 0, 14, "full", FALSE, TRUE),
                 Environment(<<"TestPluginCaCert">>, 0, 14, "full", TRUE, FALSE),
                 Environment(Both, 0, 14, "persistent", FALSE, TRUE)}

================================================================================

------------------------------ MODULE Commands ------------------------------
(***************************************************************************)
(* The load generators and the license tool.  A command line selects one   *)
(* of the programs; they share nothing.                                    *)
(***************************************************************************)
EXTENDS LoadTools, LicenseBundle

commandVars == <<loadVars, toolVars, bundleVars>>

CommandsInit ==
    /\ ToolsInit
    /\ BundleInit
    /\ line.tool # "license" => deps = {}

CommandsNext ==
    \/ ToolsNext /\ UNCHANGED bundleVars
    \/ /\ line.tool = "license"
       /\ BundleNext
       /\ UNCHANGED <<loadVars, toolVars>>

CommandsSpec == CommandsInit /\ [][CommandsNext]_commandVars /\ ToolsFairness

=============================================================================

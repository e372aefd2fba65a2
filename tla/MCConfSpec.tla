----------------------------- MODULE MCConfSpec -----------------------------
(* The small instance TLC checks: the two halves of splunk_conf_spec.rs,   *)
(* which share no state.  A behaviour is one of ConfPattern, with nothing  *)
(* loaded, or one of ConfSpec, with no pattern at hand.                    *)
EXTENDS ConfPattern, ConfSpec

\* AcuteE is U+00E9.
AcuteE == <<"C3", "A9">>
MCPatternChar == {<<"a">>, <<".">>, <<"*">>, <<"<">>, <<">">>, AcuteE}
MCTextChar == {<<"a">>, <<".">>, AcuteE}
MCLatin1 == [b \in {"C3", "A9"} |-> IF b = "C3" THEN <<"C3", "83">> ELSE <<"C2", "A9">>]

MCMatch ==
    {<<n, n>> : n \in Name \cup Option}
    \cup {<<"<index>", n>> : n \in Name}
    \cup {<<"lmpool:<name>", "lmpool:b">>, <<"lmpool:<name>", "lmpool:a">>}
    \cup {<<"volume:<volume>", "volume:v">>, <<"attr.<name>", "attr.x">>}

VARIABLE half  \* "pattern" or "registry"

MCInit ==
    /\ half \in {"pattern", "registry"}
    /\ Init /\ RegistryInit
    /\ half = "pattern" => conf = "props.conf"
    /\ half = "registry" => raw = <<>> /\ text = <<>>

MCNext ==
    /\ UNCHANGED half
    /\ \/ half = "pattern" /\ Next /\ UNCHANGED registryVars
       \/ half = "registry" /\ RegistryNext /\ UNCHANGED vars

MCSpec == MCInit /\ [][MCNext]_<<half, vars, registryVars>>
=============================================================================

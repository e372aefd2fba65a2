------------------------------ MODULE MCConfig ------------------------------
(* The small instance TLC checks: a merge of ConfParser or a call of       *)
(* ConfLayering, which share no state; the other has not begun.            *)
EXTENDS ConfParser, ConfLayering

\* Two apps in one root and one, with the name of one of them, in another; a
\* hidden one; one key.
MCAppsIn == <<{1, 2}, {1}, {3}>>

MCContent ==
    {[s \in {"default"} |-> [k \in {"k"} |-> "$_index_name"]],
     [s \in {"s", "volume:v"} |-> IF s = "s" THEN [k \in {"k"} |-> "plain"] ELSE <<>>]}

MCInstall ==
    {[state |-> "disabled", priority |-> {}],
     [state |-> "enabled", priority |-> {1}],
     [state |-> "other", priority |-> {-1}]}

MCOptions ==
    [inherit : {TRUE}, expand : {TRUE}, includeDisabled : {FALSE}, filter : {{}}, user : {FALSE}]
    \cup [inherit : {TRUE}, expand : {FALSE}, includeDisabled : {TRUE}, filter : {{1}}, user : {TRUE}]
    \cup [inherit : {FALSE}, expand : {TRUE}, includeDisabled : {FALSE}, filter : {{2}}, user : {TRUE}]

VARIABLE called  \* "merge" or "layering"

MCInit ==
    /\ called \in {"merge", "layering"}
    /\ Init /\ LayeringInit
    /\ called = "merge" => ~options.expand
    /\ called = "layering" => precedence = "LastWins" /\ strict

MCNext ==
    /\ UNCHANGED called
    /\ \/ called = "merge" /\ Next /\ UNCHANGED layeringVars
       \/ called = "layering" /\ LayeringNext /\ UNCHANGED vars

MCSpec == MCInit /\ [][MCNext]_<<called, vars, layeringVars>>
=============================================================================

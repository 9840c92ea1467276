------------------------------ MODULE MCAccounts ------------------------------
(***************************************************************************)
(* SignIn, Subscriptions and Channels for TLC.                             *)
(*                                                                         *)
(* They share no state, so every behaviour of the three together is an     *)
(* interleaving of one of each, and it is enough to let one of them move   *)
(* while the others stay in an initial state: focus says which.  (A user   *)
(* who is deleted takes the subscriptions with him; none of the modules    *)
(* says anything of them after that.)                                      *)
(***************************************************************************)
EXTENDS SignIn, Subscriptions, Channels

VARIABLE focus

CONSTANTS w1, w2, w3, u1, k1, k2, x1, x2

MCInit ==
    /\ SignInInit /\ SubInit /\ ChannelsInit
    /\ focus \in {"signing in", "subscribing", "resolving"}

MCNext ==
    /\ \/ focus = "signing in" /\ SignInNext /\ UNCHANGED <<subVars, channelVars>>
       \/ focus = "subscribing" /\ SubNext /\ UNCHANGED <<signInVars, channelVars>>
       \/ focus = "resolving" /\ ChannelsNext /\ UNCHANGED <<signInVars, subVars>>
    /\ UNCHANGED focus

MCSpec == MCInit /\ [][MCNext]_<<signInVars, subVars, channelVars, focus>>

AccountsTypeOK == SignInTypeOK /\ SubTypeOK /\ ChannelsTypeOK

\* Plans and Chats share k1 and k2, Workers and Procs w1 and w2: one group of
\* permutations for the three modules.
MCSymmetry == Permutations({w1, w2, w3}) \cup Permutations({k1, k2})
=============================================================================

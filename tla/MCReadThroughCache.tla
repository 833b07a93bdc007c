------------------------ MODULE MCReadThroughCache ------------------------
(***************************************************************************)
(* Instances of ReadThroughCache for TLC.  The services share no key, and  *)
(* what one does says nothing about the keys of another: a behaviour is of *)
(* the keys of one service, which are in focus.                            *)
(***************************************************************************)
EXTENDS ReadThroughCache

VARIABLE focus

mcVars == <<vars, focus>>

InFocus == \A t \in Threads : key[t] \in focus /\ pending[t] \subseteq focus

MCInit == focus \in {Slugs, Menus, Rules, Settings} /\ Init /\ InFocus

Stay == UNCHANGED focus /\ InFocus'

MCNext == Next /\ Stay

MCSpec == MCInit /\ [][MCNext]_mcVars

MCFairSpec ==
    /\ MCSpec
    /\ \A t \in Threads : WF_mcVars(Continue(t) /\ Stay)
    /\ \A k \in Keys : WF_mcVars(TtlPasses(k) /\ Stay)
=============================================================================

------------------------------ MODULE MCMixes ------------------------------
(***************************************************************************)
(* One instance of ConcurrentLifecycle per mix of requests: the clients    *)
(* either judge one memory or share two.  The two together are out of      *)
(* TLC's reach and would show nothing more.                                *)
(***************************************************************************)
EXTENDS MCConcurrent

VARIABLE mix

Mixed == Judging \cup Sharing

MixInit == Init /\ mix \in {Judging, Sharing}

MixNext ==
    /\ Next
    /\ UNCHANGED mix
    /\ \A w \in Worker : \A h \in handlers'[w] :
          /\ h.request \in mix
          /\ mix = Judging => h.memory = m1
          /\ mix = Sharing => Len(h.row.versions) < MaxVersions - 1

MixSpec == MixInit /\ [][MixNext]_<<vars, mix>>
=============================================================================

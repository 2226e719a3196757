----------------------------- MODULE MCCluster -----------------------------
(* Instance of Cluster: three members; one kind of trouble per behaviour. *)
EXTENDS Cluster

Calm == [bootstrap |-> 3, backups |-> 1, ring |-> 2, keys |-> {2}, writes |-> 0, queries |-> 0,
         crashes |-> 0, breaks |-> 0, joins |-> 0, promotions |-> 0, slow |-> {}]

MCWorkload ==
    {[Calm EXCEPT !.writes = 2, !.crashes = 1, !.ring = 1],
     [Calm EXCEPT !.writes = 1, !.keys = {3}, !.crashes = 1],
     [Calm EXCEPT !.writes = 1, !.backups = 2, !.crashes = 1, !.breaks = 1],
     [Calm EXCEPT !.bootstrap = 2, !.writes = 2, !.joins = 1],
     [Calm EXCEPT !.bootstrap = 2, !.writes = 1, !.keys = {3}, !.joins = 1, !.crashes = 1],
     [Calm EXCEPT !.queries = 2, !.ring = 1],
     [Calm EXCEPT !.queries = 1, !.crashes = 1, !.breaks = 1],
     [Calm EXCEPT !.backups = 0, !.writes = 1, !.crashes = 1],
     [Calm EXCEPT !.writes = 1, !.crashes = 1, !.promotions = 1],
     [Calm EXCEPT !.writes = 1, !.keys = {3}, !.slow = {1, 2}]}
=============================================================================

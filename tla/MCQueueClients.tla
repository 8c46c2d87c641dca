-------------------------- MODULE MCQueueClients --------------------------
(* A request with two prompts and its cancellation, another completion,    *)
(* and a metrics request.                                                  *)
EXTENDS QueueClients

T(type, id, target) == [type |-> type, id |-> id, id_target |-> target]

a1 == T("COMPLETION", 1, NoId)
a2 == T("COMPLETION", 2, NoId)
b1 == T("COMPLETION", 3, NoId)
m1 == T("METRICS", 4, NoId)
c1 == T("CANCEL", 5, 1)
c2 == T("CANCEL", 6, 2)
nr == T("NEXT_RESPONSE", 8, NoId)

MCTask == {a1, a2, b1, m1, c1, c2, nr}
MCBatch == {<<a1, a2>>, <<b1>>, <<m1>>, <<c1, c2>>}
=============================================================================

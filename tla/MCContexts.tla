------------------------------ MODULE MCContexts ------------------------------
(* Instances of Contexts for TLC: the contexts that `context create` may be asked for. *)
EXTENDS Contexts

CONSTANTS p1, p2, n1, n2, o1, o2, org, r1, c1, c2, ca1

NoTLSOption == [ca |-> None, skip |-> FALSE]
Tanzu(n, o) == [name |-> n, tls |-> NoTLSOption,
                ctx |-> [NoContext EXCEPT !.endpoint = o]]
K8s(n, c, pinniped) == [name |-> n, tls |-> NoTLSOption,
                        ctx |-> [NoContext EXCEPT !.type = "kubernetes", !.kube = c,
                                                  !.pinniped = pinniped]]
TMC(n) == [name |-> n, tls |-> NoTLSOption,
           ctx |-> [NoContext EXCEPT !.type = "mission-control"]]

\* Two names, every type, each cluster in one way.
AllRequests == {Tanzu(n1, o1), Tanzu(n2, o2), K8s(n1, c1, FALSE), K8s(n2, c2, TRUE), TMC(n2)}
NoTLSOptions == {NoTLSOption}
=============================================================================

---------------------------- MODULE MCOpenWebUi -----------------------------
(* Two users of an OpenWebUI, in every combination of what they change: the *)
(* LLMs, the vector database and Keycloak.                                  *)
EXTENDS OpenWebUi

CONSTANTS c1, c2, v1, l1

Pair(k1, k2) == [c \in Client |-> IF c = c1 THEN k1 ELSE k2]

Mixes ==
    { Pair({"connect", "sync"}, {"connect", "disconnect"}),
      Pair({"connect"}, VectorKinds),
      Pair({"disconnect"}, VectorKinds),
      Pair({"connect"}, {"keycloak"}),
      Pair({"connect"}, {"no_keycloak"}),
      Pair(VectorKinds, VectorKinds \cup {"repair"}),
      Pair(KeycloakKinds, KeycloakKinds),
      Pair(VectorKinds, KeycloakKinds) }
=============================================================================

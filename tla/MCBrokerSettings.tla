--------------------------- MODULE MCBrokerSettings ---------------------------
(* Forms a user fills in: everything, with either value, a new secret or a   *)
(* new token alone, or nothing.                                              *)
EXTENDS BrokerSettings

SomeForms ==
  {[f \in Fields |-> c] : c \in Creds \cup {None}}
    \cup {[f \in Fields |-> IF f = g THEN c ELSE None] :
            g \in {"api_secret", "access_token"}, c \in Creds}
=============================================================================

----------------------------- MODULE MCBinding -----------------------------
(* Small instances of Binding for TLC. *)
EXTENDS Binding

CONSTANTS key1, key2, model, goroutine

SomeBindings ==
    {b \in [provider : Kinds \cup {"unknown"}, model : {model},
            baseURL : BOOLEAN, keyRef : BOOLEAN] :
       /\ b.provider \in {"claude-cli", "unknown"} => ~b.baseURL /\ ~b.keyRef
       /\ b.provider = "anthropic" => ~b.baseURL}
=============================================================================

----------------------------- MODULE MCTransform -----------------------------
(***************************************************************************)
(* Small folders for Transform: a data file a (plain or encrypted), a     *)
(* free name b and the two keys.  A content is a base with the layers that *)
(* were put around it; a layer is an operation and the key it used.        *)
(***************************************************************************)
EXTENDS Transform, Sequences, FiniteSets

CONSTANTS a, b,           \* two data names
          kkey, xkey,     \* the names key.key and xcha.key
          MaxLayers,      \* bound on the layers of a content
          MCOps           \* the operations of this run

MCNames == {a, b, kkey, xkey}

Base(x) == [base |-> x, layers |-> <<>>]
KeyTexts == {Base("k"), Base("x"), Base("edit")}
Layers == {"xor", "box"} \X KeyTexts
MCTexts == [base : {"plain", "k", "x", "edit"},
            layers : UNION {[1..n -> Layers] : n \in 0..MaxLayers}]
MCUserTexts == {Base("edit")}

\* A layer more, if there is room for it.
Wrap(t, l) ==
    IF Len(t.layers) < MaxLayers THEN [t EXCEPT !.layers = <<l>> \o @] ELSE Reject
Outer(t, l) == t.layers # <<>> /\ Head(t.layers) = l
Unwrap(t) == [t EXCEPT !.layers = Tail(@)]

(***************************************************************************)
(* Applying the XOR pad twice removes it; decryption accepts only what was *)
(* encrypted under the same key.                                           *)
(***************************************************************************)
MCXform(op, k, t) ==
    CASE k \notin KeyTexts -> Reject
      [] op = "xor" -> IF Outer(t, <<"xor", k>>) THEN Unwrap(t) ELSE Wrap(t, <<"xor", k>>)
      [] op = "enc" -> Wrap(t, <<"box", k>>)
      [] op = "dec" -> IF Outer(t, <<"box", k>>) THEN Unwrap(t) ELSE Reject

\* Only the key contents are long enough to be a key.
MCKeyFits(op, k, t) == k \in KeyTexts

MCProtected == {kkey, xkey}
MCKeyName == [op \in Ops |-> IF op = "xor" THEN kkey ELSE xkey]

InPlace(op) == [op |-> op, in |-> a, out |-> a, replace |-> TRUE]
ToNew(op) == [op |-> op, in |-> a, out |-> b, replace |-> FALSE]
\* Two commands that name a protected file, which must come to nothing.
OnKey == {[op |-> "xor", in |-> kkey, out |-> kkey, replace |-> TRUE],
          [op |-> "xor", in |-> a, out |-> xkey, replace |-> FALSE]}
MCCommands ==
    {InPlace(op) : op \in MCOps} \cup {ToNew(op) : op \in MCOps}
        \cup (IF "xor" \in MCOps THEN OnKey ELSE {})

MCGiven ==
    {[n \in MCNames |-> CASE n = a -> t
                          [] n = b -> Unborn
                          [] n = kkey -> Base("k")
                          [] n = xkey -> Base("x")] :
        t \in {Base("plain"),
               [base |-> "plain", layers |-> <<<<"box", Base("x")>>>>]}}
=============================================================================

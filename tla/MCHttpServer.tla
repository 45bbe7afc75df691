---------------------------- MODULE MCHttpServer ----------------------------
EXTENDS HttpServer, TLC

CONSTANTS t1, t2, n1, n2, d1, d2, e1, i1, i2, good, bad

\* d1 and d2 are documents of one model, e1 of another one.
Name == d1 :> n1 @@ d2 :> n1 @@ e1 :> n2

Policy == {good} \X MemoryRoutes \X (Items \union SUBSET Items)

Sign(s, r, b) ==
  [signed |-> TRUE, signer |-> s, sender |-> s, toServer |-> TRUE,
   invoke |-> TRUE, route |-> r, body |-> b]

Ask(r, b, e) == [route |-> r, body |-> b, envelope |-> e]

Signed(r, b) == Ask(r, b, Sign(good, r, b))

Imports ==
  { Signed("import_osi", d1),
    Signed("import_croissant", e1),
    Signed("import_osi", Malformed) }

\* d2 has no envelope, or that of another body or route.
Forged ==
  {Ask("import_osi", d2, x) :
     x \in {None, Sign(good, "import_osi", d1), Sign(good, "answer", d2)}}

Reads == {Ask("list", None, None), Ask("get", n1, None), Signed("answer", None)}

\* i2 has envelopes of another signer or route, tampered with, meant for
\* another server or for another action, or of one who may not remember.
Misused ==
  LET e == Sign(good, "remember", i2)
  IN  {Ask("remember", i2, x) :
         x \in { [e EXCEPT !.signer = bad], [e EXCEPT !.route = "recall"],
                 [e EXCEPT !.signed = FALSE], [e EXCEPT !.toServer = FALSE],
                 [e EXCEPT !.invoke = FALSE], Sign(bad, "remember", i2) }}

Memories ==
  { Signed("remember", i1), Signed("recall", i1), Signed("forget", {i1}),
    Signed("forget", {i1, i2}) }

MixedRequests ==
  {Signed("import_osi", d1), Ask("list", None, None), Signed("answer", None),
   Ask("remember", i1, Sign(bad, "remember", i1))}
    \union (Memories \ {Signed("forget", {i1, i2})})

AllRequests == Imports \union Forged \union Reads \union Memories \union Misused

Symmetry == Permutations(Tasks)
=============================================================================

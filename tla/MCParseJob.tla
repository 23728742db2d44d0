---------------------------- MODULE MCParseJob ----------------------------
(* Jobs of every kind of enclave, with allowances that fit and that do not.  *)
EXTENDS ParseJob

CONSTANTS a, b, h1, h2, user, owner, m

Sig(p, q, h) == [by |-> p, param |-> q, hash |-> h]
Allow(p, h, sig) == [pkey |-> p, hash |-> h, sig |-> sig]
Input(h, p, s) == [hash |-> h, pkey |-> p, skey |-> s]
Allowed(h) == Allow(owner, h, Sig(owner, a, h))

MCParam == {a, b}
MCHash == {h1, h2}
MCPkey == {user, owner}
MCModel == {m}

AllowanceLists ==
  {<<>>, <<Allowed(h1)>>, <<Allowed(h1), Allowed(h2), Allowed(m)>>,
   <<Allow(owner, h1, Sig(owner, b, h1)), Allowed(m)>>,
   <<Allow(owner, h1, Sig(user, a, h1))>>,
   <<Allow(owner, h1, None), Allow(owner, h2, Sig(owner, a, h1))>>,
   <<Allow(None, h1, Sig(owner, a, h1))>>}

InputLists(src) ==
  CASE src = "noinput" -> {<<>>}
    [] src = "raw" -> {<<>>, <<Input(h1, None, owner)>>, <<Input(h1, owner, owner)>>}
    [] src = "single" -> {<<>>, <<Input(h1, owner, owner)>>,
                          <<Input(h1, owner, owner), Input(h2, owner, owner)>>}
    [] src = "multi" -> {<<>>, <<Input(h1, owner, owner), Input(h2, owner, owner)>>,
                         <<Input(h1, None, user), Input(h2, owner, owner)>>}

Job(s, i, r, d, c, mo, al) ==
  [src |-> s, res |-> r, checkD |-> d, checkM |-> c, model |-> mo,
   modelKey |-> IF mo = None THEN None ELSE owner, inputs |-> i,
   param |-> a, pkey |-> user, forwards |-> TRUE, released |-> {user, owner},
   allowances |-> al, target |-> TRUE, expected |-> TRUE]

Kinds == {"noinput", "raw", "single", "multi"}
Good ==
  UNION {{Job(s, i, r, d, c, mo, al) :
            i \in InputLists(s), r \in {"onchain", "local", "forward"},
            d \in BOOLEAN, c \in BOOLEAN, mo \in {None, m},
            al \in AllowanceLists} : s \in Kinds}

\* One thing is wrong, or another, with a job that could succeed.
Bad ==
  UNION {{[j EXCEPT !.expected = FALSE], [j EXCEPT !.forwards = FALSE],
          [j EXCEPT !.target = FALSE], [j EXCEPT !.released = {user}],
          [j EXCEPT !.released = {owner}], [j EXCEPT !.modelKey = user]} :
    j \in {Job("multi", <<Input(h1, owner, owner), Input(h2, owner, None)>>,
                "offchain", TRUE, TRUE, m, <<Allowed(h1), Allowed(m)>>),
           Job("single", <<Input(h1, owner, owner)>>, "forward", TRUE, TRUE, m,
               <<Allowed(h1), Allowed(m)>>),
           Job("noinput", <<>>, "offchain", FALSE, FALSE, m, <<>>)}}

MCJobs == Good \cup Bad
=============================================================================

----------------------------- MODULE MCSettings -----------------------------
(* Settings on files that vary one part at a time, see README.md. *)
EXTENDS Settings

Lit(s) == <<[lit |-> s]>>
Ref(v) == <<[ref |-> v]>>
Var    == "KEY"

MCVariables == {Var}
MCWords     == STRING \ {""}
MCHostWords == {"a", "b", "A", "http", "https", "*"}
MCCapitals  == {"A", "HTTPS"}

\* Unset or empty, a name, blank, a value that looks like a placeholder, and
\* parts of an origin or a whole one.
MCEnvironments ==
  [MCVariables -> {<<>>, Lit("a"), Lit(" "), Ref(Var), Lit("https"), Lit("A"),
                   <<[number |-> 8443, zeros |-> FALSE]>>,
                   Lit("https") \o <<Sign("://")>> \o Lit("a")}]

Rest == [host |-> None, max_attempt |-> None, timeout |-> None, legacy |-> None,
         max_bytes |-> None, hedge_after |-> None, origins |-> None, decider |-> None]

Upstream(label, url, hedge) == [label |-> label, url |-> url, hedge_after |-> hedge]

MCTexts == {<<>>, Lit(" "), Lit("a"), Lit("b"), Ref(Var), Lit("b") \o Ref(Var),
            <<[noname |-> " "]>>, <<[lit |-> "a"], [open |-> "KEY"]>>}

First == {Upstream(Lit("a"), Lit("a"), None), Upstream(Lit("b") \o Lit("a"), Lit("b"), None)}

Fleets == {<<>>}
  \cup {<<Upstream(Lit("a"), Lit("a"), h)>> : h \in {None, 0, 1}}
  \cup {<<f, Upstream(l, u, h)>> : f \in First, l \in MCTexts, u \in MCTexts, h \in {None, 0}}

Good == <<Upstream(Lit("a"), Lit("a"), None), Upstream(Lit("b"), Ref(Var), 1)>>

\* ... and one that no variable can spoil.
Fixed == <<Upstream(Lit("a"), Lit("a"), None)>>

With(rest, fleet) ==
  [key \in DOMAIN rest \cup {"upstreams"} |-> IF key = "upstreams" THEN fleet ELSE rest[key]]

\* Origins: every part of them right, wrong, missing, and from the variable.
Schemes == {Lit("http"), Lit("https"), Lit("ftp"), Lit("HTTPS"), Ref(Var)}
Users   == {<<>>, Lit("b") \o <<Sign("@")>>}
Hosts   == {<<>>, Lit("a"), Lit("A"), Lit("a") \o Lit("b"), Lit("a") \o Lit(" "),
            Ref(Var), Lit("a") \o Ref(Var)}
Ends    == {<<>>, <<Sign(":")>>, <<Sign(":"), [number |-> 443, zeros |-> TRUE]>>,
            <<Sign(":")>> \o Ref(Var), <<Sign("/")>>, Port(8443) \o <<Sign("/")>> \o Lit("b")}
           \cup {Port(n) : n \in {80, 443, 8443, 65535, 65536}}

Page(host) == Lit("https") \o <<Sign("://")>> \o host

OriginLists ==
  {<<Lit("*")>>, <<Lit("*"), Page(Lit("a"))>>, <<Lit("*"), Lit("*")>>, <<Ref(Var)>>,
   <<Lit(" ") \o Page(Lit("a"))>>, <<Page(Lit("a")), Page(Lit("b"))>>,
   <<Page(Lit("a")), Page(Lit("a"))>>, <<Page(Ref(Var)), Page(Lit("a"))>>,
   <<Ref(Var), Page(Lit("a"))>>, <<Page(Lit("a")), Page(Lit("a") \o Port(8443))>>}
  \cup {<<scheme \o <<Sign("://")>> \o user \o host \o end>> :
           scheme \in Schemes, user \in Users, host \in Hosts, end \in Ends}

MCFiles ==
  {With(Rest, fleet) : fleet \in Fleets}
  \cup {With([Rest EXCEPT !.origins = list], Fixed) : list \in OriginLists}
  \cup {With([Rest EXCEPT !.host = h, !.decider = d], Good) :
          h \in MCTexts, d \in {None, "LEAST_LATENCY", "FASTEST"}}
  \cup {With([Rest EXCEPT !.max_attempt = a, !.timeout = t, !.legacy = l, !.max_bytes = m,
                          !.hedge_after = h], Good) :
          a \in {None, 0}, t \in {None, 0, 5}, l \in {None, 0, 4}, m \in {None, 0, 7},
          h \in {None, 0}}
=============================================================================

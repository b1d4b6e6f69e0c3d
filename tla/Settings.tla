------------------------------ MODULE Settings ------------------------------
(***************************************************************************)
(* From the settings file to a listening server: src/src/config.rs and the *)
(* constructors that src/src/app.rs calls on the way (upstreams, decider,  *)
(* pipeline, CORS layer, listener).  Each may refuse what it is given.     *)
(*                                                                         *)
(* A text is a sequence of tokens: [lit |-> s] is a word, [ref |-> v] is   *)
(* ${v}, [noname |-> s] a placeholder whose name is blank, [open |-> s] a  *)
(* "${" with no "}" after it, and, for CORS origins, [sign |-> s] what     *)
(* separates their parts and [number |-> n, zeros |-> b] a number, with    *)
(* leading zeros or without. Words and numbers stay what they are when     *)
(* texts are put together: texts are equal when their tokens are.          *)
(***************************************************************************)
EXTENDS Integers, Sequences, SequencesExt

CONSTANTS
  Files,   \* the settings files, with None for a key that is not given
  Environments,  \* functions from variable names to texts, <<>> when unset
  Variables,     \* the names of environment variables
  Words,         \* the strings of files and environments
  HostWords,     \* those of them that the URI parser takes in a host
  Capitals,      \* those that have capital letters
  None

Tokens == [lit : Words] \cup [ref : Variables] \cup [noname : Words] \cup [open : Words]
            \cup [sign : {"://", "@", ":", "/"}] \cup [number : Nat, zeros : BOOLEAN]
Texts  == Seq(Tokens)

UpstreamSettings == [label : Texts, url : Texts, hedge_after : Nat \cup {None}]

\* What serde makes of the file: the numbers are unsigned.
Written ==
  [host : Texts \cup {None}, max_attempt : Nat \cup {None}, timeout : Nat \cup {None},
   legacy : Nat \cup {None}, max_bytes : Nat \cup {None}, hedge_after : Nat \cup {None},
   origins : Seq(Texts) \cup {None}, decider : Words \cup {None},
   upstreams : Seq(UpstreamSettings)]

ASSUME FilesAssumption        == Files \subseteq Written
ASSUME EnvironmentsAssumption == Environments \subseteq [Variables -> Texts]
ASSUME WordsAssumption        == /\ {"127.0.0.1", "*", "ROUND_ROBIN"} \subseteq Words
                                 /\ "" \notin Words
ASSUME HostsAssumption        == /\ HostWords \cup Capitals \subseteq Words
                                 /\ " " \notin HostWords
                                 /\ {"http", "https"} \cap Capitals = {}
ASSUME NoneAssumption         == None \notin Nat \cup Words \cup Texts \cup Seq(Texts)

Deciders == {"ROUND_ROBIN", "PREFER_LEAST_ERRORS", "LEAST_LATENCY"}

VARIABLES
  file,      \* the file as written
  env,       \* the environment of the process
  settings,  \* the Settings value being prepared
  stage,     \* what is done next, or how it ended
  at         \* the position within the stage

settingsVars == <<file, env, settings, stage, at>>

-----------------------------------------------------------------------------

\* Builder::set_default
Default(value, default) == IF value = None THEN default ELSE value

\* Mutation: the old key is copied without asking whether it is there.
TimeoutAlwaysLegacy(f) == f.legacy

\* apply_legacy_keys: the deprecated top-level key wins over the new one.
Timeout(f) == Default(f.legacy, Default(f.timeout, 3))

Deserialized(f) ==
  [host        |-> Default(f.host, <<[lit |-> "127.0.0.1"]>>),
   max_attempt |-> Default(f.max_attempt, 3),
   timeout     |-> Timeout(f),
   max_bytes   |-> Default(f.max_bytes, 10485760),
   hedge_after |-> Default(f.hedge_after, 250),
   origins     |-> Default(f.origins, <<>>),
   decider     |-> Default(f.decider, "ROUND_ROBIN"),
   upstreams   |-> f.upstreams]

Tagged(token, tag) == tag \in DOMAIN token
Holds(text, tag)   == \E i \in DOMAIN text : Tagged(text[i], tag)

\* An unset variable and an empty one are the same error.
Expandable(text) ==
  \A i \in DOMAIN text : Tagged(text[i], "ref") => env[text[i].ref] # <<>>

\* expand_str: what a variable holds is not expanded again, and a nameless or
\* unterminated placeholder stays as it is written.
Expanded(text) ==
  FlattenSeq([i \in DOMAIN text |->
                IF Tagged(text[i], "ref") THEN env[text[i].ref] ELSE <<text[i]>>])

\* trim().is_empty()
Blank(text) == \A i \in DOMAIN text : text[i] = [lit |-> " "]

\* contains("${")
Placeholder(text) == Holds(text, "ref") \/ Holds(text, "noname") \/ Holds(text, "open")

Wildcard == <<[lit |-> "*"]>>
Sign(s)  == [sign |-> s]
Port(n)  == <<Sign(":"), [number |-> n, zeros |-> FALSE]>>

\* What the URI parser takes for the host goes on as long as it can: one of
\* text ends at position end, or there is none and end is the "://".
HostPiece(token) == token \in [lit : HostWords] \/ Tagged(token, "number")

HostEndsAt(text, end) ==
  /\ \A i \in 3 .. end : HostPiece(text[i])
  /\ end = Len(text) \/ ~HostPiece(text[end + 1])

PortNumbers == 0 .. 65535

\* port_u16: None for no port, a colon alone, and a number that is too large.
PortAfter(text, end) ==
  IF /\ end + 2 <= Len(text) /\ text[end + 1] = Sign(":")
     /\ Tagged(text[end + 2], "number") /\ text[end + 2].number \in PortNumbers
  THEN text[end + 2].number ELSE None

ImpliedPorts == {<<"http", 80>>, <<"https", 443>>}

\* validate_origin. What has a user, a path, a slash at the end, white space, or
\* zeros before its port is not its own canonical form, which is scheme, host
\* and port as they were parsed.
ValidOriginText(text) ==
  \E end \in 2 .. Len(text) :
    /\ HostEndsAt(text, end)
    /\ text[1] \in [lit : {"http", "https"}] /\ text[2] = Sign("://")
    /\ end > 2
    /\ \A i \in DOMAIN text : text[i] \notin [lit : Capitals]
    /\ LET port == PortAfter(text, end)
       IN  /\ <<text[1].lit, port>> \notin ImpliedPorts
           /\ text = SubSeq(text, 1, end) \o (IF port = None THEN <<>> ELSE Port(port))

\* validate_cors
ValidCors(origins) ==
  \/ origins = <<Wildcard>>
  \/ /\ \A i \in DOMAIN origins : ValidOriginText(origins[i])
     /\ IsInjective(origins)

-----------------------------------------------------------------------------

SettingsInit ==
  /\ file \in Files
  /\ env \in Environments
  /\ settings = None
  /\ stage = "load"
  /\ at = 0

Refuse == stage' = "refused" /\ UNCHANGED at

\* The file is read and its keys are given their defaults.
Load ==
  /\ stage = "load"
  /\ settings' = Deserialized(file)
  /\ IF settings'.decider \in Deciders
       THEN stage' = "expand" /\ UNCHANGED at
       ELSE Refuse
  /\ UNCHANGED <<file, env>>

ExpandHost ==
  /\ stage = "expand" /\ at = 0
  /\ IF Expandable(settings.host)
       THEN settings' = [settings EXCEPT !.host = Expanded(@)] /\ at' = 1 /\ UNCHANGED stage
       ELSE Refuse /\ UNCHANGED settings
  /\ UNCHANGED <<file, env>>

ExpandUpstream ==
  /\ stage = "expand" /\ at \in DOMAIN settings.upstreams
  /\ LET rpc == settings.upstreams[at]
     IN  IF Expandable(rpc.label) /\ Expandable(rpc.url)
           THEN /\ settings' = [settings EXCEPT !.upstreams[at] =
                     [rpc EXCEPT !.label = Expanded(rpc.label), !.url = Expanded(rpc.url)]]
                /\ at' = at + 1 /\ UNCHANGED stage
           ELSE Refuse /\ UNCHANGED settings
  /\ UNCHANGED <<file, env>>

\* The origins come last in expand_env.
ExpandOrigins ==
  /\ stage = "expand" /\ at = Len(settings.upstreams) + 1
  /\ IF \A i \in DOMAIN settings.origins : Expandable(settings.origins[i])
       THEN /\ settings' = [settings EXCEPT !.origins =
                              [i \in DOMAIN @ |-> Expanded(@[i])]]
            /\ stage' = "check" /\ at' = 0
       ELSE Refuse /\ UNCHANGED settings
  /\ UNCHANGED <<file, env>>

\* validate_settings, up to its loop.
CheckShared ==
  /\ stage = "check" /\ at = 0
  /\ IF /\ settings.upstreams # <<>>
        /\ settings.hedge_after # 0
        /\ ValidCors(settings.origins)
       THEN at' = 1 /\ UNCHANGED stage
       ELSE Refuse
  /\ UNCHANGED <<file, env, settings>>

\* Mutation: duplicates are looked for in the list as it was written, before
\* the variables have their values.
CheckUpstreamAsWritten ==
  /\ stage = "check" /\ at \in DOMAIN settings.upstreams
  /\ LET rpc == settings.upstreams[at]
     IN  IF /\ ~Blank(rpc.label) /\ ~Blank(rpc.url)
            /\ ~Placeholder(rpc.label) /\ ~Placeholder(rpc.url)
            /\ \A i \in 1 .. at - 1 : /\ file.upstreams[i].label # file.upstreams[at].label
                                      /\ file.upstreams[i].url # file.upstreams[at].url
            /\ rpc.hedge_after # 0
           THEN IF at = Len(settings.upstreams) THEN stage' = "build" /\ at' = 0
                                                ELSE at' = at + 1 /\ UNCHANGED stage
           ELSE Refuse
  /\ UNCHANGED <<file, env, settings>>

\* validate_settings, one turn of its loop.
CheckUpstream ==
  /\ stage = "check" /\ at \in DOMAIN settings.upstreams
  /\ LET rpc == settings.upstreams[at]
     IN  IF /\ ~Blank(rpc.label) /\ ~Blank(rpc.url)
            /\ ~Placeholder(rpc.label) /\ ~Placeholder(rpc.url)
            /\ \A i \in 1 .. at - 1 : /\ settings.upstreams[i].label # rpc.label
                                      /\ settings.upstreams[i].url # rpc.url
            /\ rpc.hedge_after # 0
           THEN IF at = Len(settings.upstreams) THEN stage' = "build" /\ at' = 0
                                                ELSE at' = at + 1 /\ UNCHANGED stage
           ELSE Refuse
  /\ UNCHANGED <<file, env, settings>>

\* Upstream::new checks again what it is given.
UpstreamBuilds(rpc) ==
  /\ ~Blank(rpc.label) /\ ~Blank(rpc.url)
  /\ 0 \notin {settings.timeout, rpc.hedge_after, settings.max_bytes}

\* An upstream with no hedge_after of its own takes the shared one.
Hedged(rpc) == [rpc EXCEPT !.hedge_after = Default(rpc.hedge_after, settings.hedge_after)]

\* build_all
BuildUpstreams ==
  /\ stage = "build"
  /\ settings' = [settings EXCEPT !.upstreams =
                    [i \in DOMAIN settings.upstreams |-> Hedged(settings.upstreams[i])]]
  /\ IF \A i \in DOMAIN settings'.upstreams : UpstreamBuilds(settings'.upstreams[i])
       THEN stage' = "wire" /\ UNCHANGED at
       ELSE Refuse
  /\ UNCHANGED <<file, env>>

\* A decider refuses an empty fleet, which CheckShared has refused before.
DeciderBuilds  == settings.upstreams # <<>>
PipelineBuilds == settings.max_attempt # 0

Wire ==
  /\ stage = "wire"
  /\ IF DeciderBuilds /\ PipelineBuilds
       THEN stage' = "bind" /\ UNCHANGED at
       ELSE Refuse
  /\ UNCHANGED <<file, env, settings>>

\* TcpListener::bind fails for an address that is none, and when it is taken.
Bind ==
  /\ stage = "bind"
  /\ stage' \in IF Blank(settings.host) \/ Placeholder(settings.host)
                  THEN {"unbound"} ELSE {"unbound", "listening"}
  /\ UNCHANGED <<file, env, settings, at>>

SettingsNext ==
  \/ Load
  \/ ExpandHost \/ ExpandUpstream \/ ExpandOrigins
  \/ CheckShared \/ CheckUpstream
  \/ BuildUpstreams \/ Wire \/ Bind

SettingsSpec == SettingsInit /\ [][SettingsNext]_settingsVars

-----------------------------------------------------------------------------

\* The two Nat-or-None of an upstream are settled by the time it is wired.
SettingsTypeOK ==
  /\ file \in Written /\ env \in Environments
  /\ stage \in {"load", "expand", "check", "build", "wire", "bind",
                "listening", "refused", "unbound"}
  /\ at \in Nat
  /\ stage # "load" =>
       /\ {settings.max_attempt, settings.timeout, settings.max_bytes,
           settings.hedge_after} \subseteq Nat
       /\ \A i \in DOMAIN settings.upstreams :
            LET rpc == settings.upstreams[i]
            IN  /\ rpc.hedge_after \in Nat \cup {None}
                /\ stage \in {"wire", "bind", "listening"} => rpc.hedge_after \in Nat \ {0}

\* What a text comes to, said without the code's traversal: the values of its
\* variables in their places, or None when one of them has no value.
Meant(text) ==
  IF \E i \in DOMAIN text : Tagged(text[i], "ref") /\ env[text[i].ref] = <<>>
    THEN None
    ELSE FoldLeft(LAMBDA before, token :
                    before \o (IF Tagged(token, "ref") THEN env[token.ref] ELSE <<token>>),
                  <<>>, text)

MeantEach(texts) == [i \in DOMAIN texts |-> Meant(texts[i])]

\* How a browser spells the origin of a page, for whatever is a host to the
\* parser: scheme and host in lower case, and a port if it does not go without
\* saying. Only such a text can match an `Origin` header.
CanMatch(text) ==
  \E last \in 3 .. Len(text) :
    /\ text[1] \in [lit : {"http", "https"}] /\ text[2] = Sign("://")
    /\ \A i \in 3 .. last : HostPiece(text[i]) /\ text[i] \notin [lit : Capitals]
    /\ \/ last = Len(text)
       \/ /\ last + 2 = Len(text) /\ text[last + 1] = Sign(":")
          /\ text[last + 2] \in [number : PortNumbers, zeros : {FALSE}]
          /\ <<text[1].lit, text[last + 2].number>> \notin ImpliedPorts

\* The values that file and environment give together: every key its value,
\* its old spelling or its default, every variable replaced.
Labels == MeantEach([i \in DOMAIN file.upstreams |-> file.upstreams[i].label])
Urls   == MeantEach([i \in DOMAIN file.upstreams |-> file.upstreams[i].url])
Origins == MeantEach(Default(file.origins, <<>>))
Host   == Meant(Default(file.host, <<[lit |-> "127.0.0.1"]>>))
SharedHedge == Default(file.hedge_after, 250)
Hedges == [i \in DOMAIN file.upstreams |-> Default(file.upstreams[i].hedge_after, SharedHedge)]
Numbers == <<Default(file.max_attempt, 3), Timeout(file), Default(file.max_bytes, 10485760)>>

\* The files docs/configuration.md describes, and what the modules Dispatch,
\* Ranking, RoundRobin, SingleFlight and Client assume of fleet and numbers.
Sound ==
  /\ Default(file.decider, "ROUND_ROBIN") \in Deciders
  /\ Host # None
  /\ 0 \notin ToSet(Numbers) \cup ToSet(Hedges) \cup {SharedHedge}
  /\ file.upstreams # <<>>
  /\ \A text \in ToSet(Labels) \cup ToSet(Urls) :
       text # None /\ ~Blank(text) /\ ~Placeholder(text)
  /\ IsInjective(Labels) /\ IsInjective(Urls)
  /\ \/ Origins = <<Wildcard>>
     \/ IsInjective(Origins) /\ \A i \in DOMAIN Origins : Origins[i] # None /\ CanMatch(Origins[i])

\* A server listens with exactly what the file and the environment mean, and
\* only if that is sound; what is refused is not sound. The tests for it are
\* spread over four stages and lean on their order: variables are replaced
\* before duplicates are looked for (docs/configuration.md:87 promises that no
\* provider is called twice for one failover), the old timeout key is read
\* before the timeout is tested, origins are compared as strings because only
\* one spelling of each is let through.
ListensExactlyWhenSound ==
  /\ stage = "refused" => ~Sound
  /\ stage = "listening" =>
       /\ Sound
       /\ settings.host = Host /\ settings.origins = Origins
       /\ <<settings.max_attempt, settings.timeout, settings.max_bytes>> = Numbers
       /\ settings.upstreams = [i \in DOMAIN file.upstreams |->
            [label |-> Labels[i], url |-> Urls[i], hedge_after |-> Hedges[i]]]
=============================================================================

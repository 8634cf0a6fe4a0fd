----------------------------- MODULE MCAlgorithms ----------------------------
(* The three pure algorithms, one at a time: a behaviour is about one "subject", *)
(* and the other two wait where they begin.  Quote is extended, so that the run  *)
(* and AlgorithmProofs speak of the same property.                               *)
EXTENDS Quote, Integers, SequencesExt, TLC

CONSTANTS DepthLimit, MaxSigned, Leaves, Keys, Siblings, Commands

VARIABLES subject, term, command, stage, position, options

optionVars == <<command, stage, position, options>>

Decoder == INSTANCE ValueDecoder WITH value <- term
Endpoint == INSTANCE EndpointOptions

-----------------------------------------------------------------------------
(* Quote: bytes at both sides of every boundary; all strings of up to three of *)
(* them, and those of four that begin like a code point of four bytes.         *)

Continuing == {128, 143, 144, 159, 160, 191}
Leading == {193, 194, 223, 224, 225, 237, 239, 240, 243, 244, 245}
MCBytes == {10, 34, 65, 127} \cup Continuing \cup Leading
MCInputs == BoundedSeq(MCBytes, 3)
                \cup {<<lead>> \o rest : lead \in {240, 243, 244, 245},
                                         rest \in [1 .. 3 -> Continuing \cup {65, 194}]}

-----------------------------------------------------------------------------
(* ValueDecoder: nesting of 2 allowed, values of up to 3, and nothing is ever  *)
(* looked at that is deeper; integers of three bits, so that unsigned ones run *)
(* to 7 and signed ones to 3; keys that collide as text.                       *)

Text(type, t) == [type |-> type, t |-> [is |-> "text", t |-> t]]
Number(type, n) == [type |-> type, n |-> n]
MCLeaves == {[type |-> "null"], [type |-> "boolean"], [type |-> "composite"],
             Number("int", -1), Number("long", 3), Number("ulong", 3), Number("ulong", 4),
             Text("string", "a")}
MCKeys == {[type |-> "string", t |-> [is |-> "decimal", n |-> 1]], Number("ulong", 1),
           [type |-> "double"]}
MCSiblings == {Number("ulong", 7), Text("symbol", "b")}

\* What a value without parts is: its type is one the program or the library knows, and
\* a signed number is one that fits 64 bits.
IsLeaf(v) ==
    /\ v.type \in Decoder!ScalarTypes \cup {"composite"}
    /\ v.type \in Decoder!NumberTypes => v.n \in Int /\ v.n <= MaxSigned
    /\ v.type = "ulong" => v.n \in Int

ASSUME LimitsAssumption == DepthLimit \in Nat /\ MaxSigned \in Nat
ASSUME LeavesAssumption == \A v \in Leaves \cup Keys \cup Siblings : IsLeaf(v)

-----------------------------------------------------------------------------
(* EndpointOptions: endpoints of every documented form and with every part     *)
(* missing; credentials with every special character; up to two arguments.     *)

Host == <<104>>
Resource == <<114>>
User == <<117>>
Colon == 58
At == 64
Slash == 47
Question == 63
Percent == 37
Parts == [scheme : BOOLEAN, info : BOOLEAN, user : {<<>>, User, <<117, Colon>>, <<At>>},
          password : {<<>>, <<Slash, Question>>, <<112, Percent>>, <<Percent, 52, 49>>},
          host : {<<>>, Host, <<104, Colon, 104>>}, port : {<<>>, <<49>>, <<120>>, <<48>>},
          resource : {<<>>, Resource, <<114, Slash, At, Colon>>},
          query : {<<>>, <<Question>>, <<Question, Slash, At>>}]
Plain == [scheme |-> TRUE, info |-> TRUE, user |-> User, password |-> <<112>>, host |-> Host,
          port |-> <<49>>, resource |-> Resource, query |-> <<>>]

Values == {<<>>, <<97>>, <<97, Percent, 50, 53>>, <<Percent, 52>>, <<Percent, 103, 49>>}
Positives == {<<>>, <<51>>, <<43, 51>>, <<48>>, <<56, 54, 52, 48, 48>>, <<56, 54, 52, 48, 49>>}
OneArgument == [name : {"user", "password"}, given : {TRUE}, value : Values]
                   \cup [name : {"count", "timeoutSeconds"}, given : {TRUE}, value : Positives]
                   \cup [name : {"help", "unknown"}, given : {TRUE}, value : {<<>>}]
LastArgument == OneArgument \cup [name : {"user", "count"}, given : {FALSE}, value : {<<>>}]
NoArguments == [parts |-> Plain, user |-> <<>>, password |-> <<>>, arguments |-> <<>>]

MCCommands ==
    [parts : Parts, user : {<<>>, <<97>>}, password : {<<>>, <<97>>}, arguments : {<<>>}]
        \cup [parts : {Plain}, user : Values, password : {<<>>, <<97>>},
              arguments : {<<>>} \cup {<<last>> : last \in LastArgument}
                              \cup {<<one, last>> : one \in OneArgument, last \in LastArgument}]

\* The endpoints people write: separators stand in the parts that have to encode them
\* only encoded, a query is introduced by its mark, and what has no scheme does not look
\* like it.
IsEndpoint(parts) ==
    /\ parts.scheme \in BOOLEAN /\ parts.info \in BOOLEAN
    /\ \A name \in {"user", "password", "host", "port", "resource", "query"} :
           parts[name] \in Seq(Nat)
    /\ \A i \in DOMAIN parts.host : parts.host[i] \notin {Slash, Question, At}
    /\ \A i \in DOMAIN parts.port : parts.port[i] \notin {Colon, Slash, Question, At}
    /\ \A i \in DOMAIN parts.resource : parts.resource[i] # Question
    /\ parts.query # <<>> => parts.query[1] = Question
    /\ parts.scheme \/ parts.port # <<>> \/ parts.host # <<97, 109, 113, 112, 115>>

IsArgument(argument) ==
    /\ argument.name \in {"user", "password", "count", "timeoutSeconds", "help", "unknown"}
    /\ argument.given \in BOOLEAN
    /\ argument.value \in Seq(Nat)

ASSUME CommandsAssumption ==
    \A line \in Commands :
        /\ IsEndpoint(line.parts)
        /\ line.user \in Seq(Nat) /\ line.password \in Seq(Nat)
        /\ Len(line.arguments) \in Nat /\ DOMAIN line.arguments = 1 .. Len(line.arguments)
        /\ \A i \in DOMAIN line.arguments : IsArgument(line.arguments[i])

-----------------------------------------------------------------------------
QuoteRests == value = <<>> /\ index = 1 /\ output = <<>>
DecoderRests == term = [type |-> "null"]
EndpointRests == command = NoArguments /\ stage = "arguments" /\ position = 1 /\ options = <<>>

MCInit == \/ subject = "value" /\ Decoder!Init /\ QuoteRests /\ EndpointRests
          \/ subject = "quote" /\ DecoderRests /\ Init /\ EndpointRests
          \/ subject = "options" /\ DecoderRests /\ QuoteRests /\ Endpoint!Init

MCNext == \/ subject = "value" /\ Decoder!Level(term)[DepthLimit + 1] = {} /\ Decoder!Next
                /\ UNCHANGED <<subject, vars, optionVars>>
          \/ subject = "quote" /\ Next /\ UNCHANGED <<subject, term, optionVars>>
          \/ subject = "options" /\ Endpoint!Next /\ UNCHANGED <<subject, term, vars>>

MCSpec == MCInit /\ [][MCNext]_<<subject, term, vars, optionVars>>

\* What is nested too deep, of no known type or keyed by neither is rejected, and nothing
\* else (see ValueDecoder).
RejectsExactly == Decoder!RejectsExactly
\* Integers beyond PHP's are kept as decimal text (see ValueDecoder).
KeepsNumbers == Decoder!KeepsNumbers
\* A section whose entries the getters show is one the setters can change (see ValueDecoder).
ShownMeansSettable == Decoder!ShownMeansSettable
\* Endpoints and credentials are read as they were written (see EndpointOptions).
OptionsAsWritten == Endpoint!OptionsAsWritten
\* Credentials that the endpoint encodes are decoded once (see EndpointOptions).
EndpointCredentialsDecodedOnce == Endpoint!EndpointCredentialsDecodedOnce
=============================================================================

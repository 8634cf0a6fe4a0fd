--------------------------- MODULE EndpointOptions --------------------------
(***************************************************************************)
(* The command line of the debugging consumer                              *)
(* (debugging/subscription_consumer.cpp): parseOptions, one argument per   *)
(* step, and the endpoint and the credentials after them.  Texts are       *)
(* sequences of character codes.  What may fail returns the set of its     *)
(* results, which is empty then.  UAMQP_ENDPOINT and --endpoint give the   *)
(* same text; the last --endpoint counts, as for the other options.        *)
(***************************************************************************)
EXTENDS Naturals, Sequences, SequencesExt

CONSTANT Commands   \* command lines: "parts" of the endpoint, or none, "user" and
                    \* "password" of the environment, and "arguments"

VARIABLES
    command,
    stage,      \* "arguments", "endpoint", "credentials", "done", "help" or "rejected"
    position,   \* the next argument
    options     \* what has been found out so far

vars == <<command, stage, position, options>>

Percent == 37
Slash == 47
Colon == 58
Question == 63
At == 64
Scheme == <<97, 109, 113, 112, 115, 58, 47, 47>>
Special == {Percent, Slash, Colon, Question, At}

-----------------------------------------------------------------------------
(* The endpoints people write. *)

HexCode(digit) == IF digit < 10 THEN 48 + digit ELSE 55 + digit
Code(character) ==
    IF character \in Special
    THEN <<Percent, HexCode(character \div 16), HexCode(character % 16)>>
    ELSE <<character>>
Encoded(text) == FlattenSeq([i \in DOMAIN text |-> Code(text[i])])

Joined(left, separator, right) == left \o <<separator>> \o right
Server(parts) == Joined(parts.host, Colon, parts.port)
Authority(parts) ==
    IF parts.info
    THEN Joined(Joined(Encoded(parts.user), Colon, Encoded(parts.password)), At, Server(parts))
    ELSE Server(parts)
Address(parts) == Joined(Authority(parts), Slash, parts.resource)
Written(parts) == (IF parts.scheme THEN Scheme ELSE <<>>) \o (Address(parts) \o parts.query)

-----------------------------------------------------------------------------
(* The functions of the program. *)

Places(text, character) == {i \in DOMAIN text : text[i] = character}
Find(text, character) ==
    IF Places(text, character) = {} THEN 0 ELSE Min(Places(text, character))
FindLast(text, character) ==
    IF Places(text, character) = {} THEN 0 ELSE Max(Places(text, character))
Before(text, i) == SubSeq(text, 1, i - 1)
After(text, i) == SubSeq(text, i + 1, Len(text))

\* strtol, to the end of the text; the spaces it would skip are left out.
ParsePositive(text) ==
    LET digits == IF text # <<>> /\ text[1] = 43 THEN Tail(text) ELSE text
        number == FoldLeft(LAMBDA n, digit : 10 * n + digit - 48, 0, digits)
    IN IF digits # <<>> /\ Range(digits) \subseteq 48 .. 57 /\ number \in 1 .. 86400
       THEN {number} ELSE {}

HexDigit(character) == CASE character \in 48 .. 57 -> {character - 48}
                         [] character \in 97 .. 102 -> {character - 87}
                         [] character \in 65 .. 70 -> {character - 55}
                         [] OTHER -> {}

\* Where a code must end; wrong: two characters earlier.
NeedsMore(text, i) == i + 2 < Len(text)
Fits(text, i) == i + 2 <= Len(text)

DecodePercent(text) ==
    LET rest[i \in 1 .. Len(text) + 1] ==
            IF i > Len(text) THEN {<<>>}
            ELSE IF text[i] # Percent THEN {<<text[i]>> \o decoded : decoded \in rest[i + 1]}
            ELSE IF ~Fits(text, i) THEN {}
            ELSE {<<16 * codes[1] + codes[2]>> \o codes[3] :
                      codes \in HexDigit(text[i + 1]) \X HexDigit(text[i + 2]) \X rest[i + 3]}
    IN rest[1]

\* What is left without the query.
WithoutQuery(text) == IF Find(text, Question) = 0 THEN text ELSE Before(text, Find(text, Question))

\* A separator with something on both sides.
Splits(text, i) == i > 1 /\ i < Len(text)

UserInfo(hostPort) ==
    LET at == FindLast(hostPort, At)
        info == Before(hostPort, at)
        separator == Find(info, Colon)
    IN IF at = 0 THEN {<<<<>>, <<>>>>}
       ELSE IF ~Splits(info, separator) THEN {}
       ELSE DecodePercent(Before(info, separator)) \X DecodePercent(After(info, separator))

ParseEndpoint(value) ==
    LET bare == IF Len(value) >= 8 /\ SubSeq(value, 1, 8) = Scheme THEN After(value, 8) ELSE value
        text == WithoutQuery(bare)
        slash == Find(text, Slash)
        hostPort == Before(text, slash)
        server == After(hostPort, FindLast(hostPort, At))
        colon == FindLast(server, Colon)
    IN IF ~Splits(text, slash) \/ ~Splits(server, colon) THEN {}
       ELSE {[host |-> Before(server, colon), port |-> port, resource |-> After(text, slash),
              user |-> info[1], password |-> info[2]] :
                 port \in ParsePositive(After(server, colon)), info \in UserInfo(hostPort)}

-----------------------------------------------------------------------------
(* parseOptions. *)

NoEndpoint == [host |-> <<>>, port |-> 5671, resource |-> <<>>, user |-> <<>>, password |-> <<>>]

Init ==
    /\ command \in Commands
    /\ stage = "arguments" /\ position = 1
    /\ options = [endpoint |-> NoEndpoint, user |-> command.user, password |-> command.password,
                  count |-> 1, timeoutSeconds |-> 60]

Argument == command.arguments[position]

ParseArgument ==
    /\ stage = "arguments" /\ position <= Len(command.arguments)
    /\ position' = position + 1
    /\ \/ /\ Argument.name \in {"user", "password"} /\ Argument.given
          /\ options' = [options EXCEPT ![Argument.name] = Argument.value]
          /\ UNCHANGED stage
       \/ /\ Argument.name \in {"count", "timeoutSeconds"} /\ Argument.given
          /\ \E number \in ParsePositive(Argument.value) :
                 options' = [options EXCEPT ![Argument.name] = number]
          /\ UNCHANGED stage
       \/ /\ \/ ~Argument.given \/ Argument.name = "unknown"
             \/ Argument.name \in {"count", "timeoutSeconds"} /\ ParsePositive(Argument.value) = {}
          /\ Argument.name # "help"
          /\ stage' = "rejected" /\ UNCHANGED options
       \/ Argument.name = "help" /\ stage' = "help" /\ UNCHANGED options
    /\ UNCHANGED command

ParseArgumentsEnds ==
    /\ stage = "arguments" /\ position > Len(command.arguments)
    /\ \/ \E endpoint \in ParseEndpoint(Written(command.parts)) :
              /\ options' = [options EXCEPT !.endpoint = endpoint]
              /\ stage' = "credentials"
       \/ /\ ParseEndpoint(Written(command.parts)) = {}
          /\ stage' = "rejected" /\ UNCHANGED options
    /\ UNCHANGED <<command, position>>

\* A credential that was not given comes from the endpoint.
Chosen(given, inEndpoint) == IF given # <<>> THEN given ELSE inEndpoint

DecodeCredentials ==
    /\ stage = "credentials"
    /\ LET users == DecodePercent(Chosen(options.user, options.endpoint.user)) \ {<<>>}
           passwords == DecodePercent(Chosen(options.password, options.endpoint.password)) \ {<<>>}
       IN \/ \E user \in users, password \in passwords :
                 /\ options' = [options EXCEPT !.user = user, !.password = password]
                 /\ stage' = "done"
          \/ /\ {} \in {users, passwords}
             /\ stage' = "rejected" /\ UNCHANGED options
    /\ UNCHANGED <<command, position>>

Next == ParseArgument \/ ParseArgumentsEnds \/ DecodeCredentials

Spec == Init /\ [][Next]_vars

-----------------------------------------------------------------------------
(* Properties. *)

\* An endpoint is taken apart as it was put together.
EndpointTakenApart ==
    stage \in {"credentials", "done"} =>
        LET parts == command.parts
        IN /\ options.endpoint.host = parts.host
           /\ options.endpoint.port \in ParsePositive(parts.port)
           /\ options.endpoint.resource = parts.resource
           /\ parts.info => /\ options.endpoint.user = parts.user
                            /\ options.endpoint.password = parts.password

\* An endpoint is refused only if a part of it is missing or its port is no number.
RefusedForCause ==
    /\ stage = "rejected" /\ command.arguments = <<>>
    /\ command.user # <<>> /\ command.password # <<>>
    =>
        LET parts == command.parts
        IN \/ <<>> \in {parts.host, parts.port, parts.resource}
           \/ ParsePositive(parts.port) = {}
           \/ parts.info /\ <<>> \in {parts.user, parts.password}
           \/ {} \in {DecodePercent(command.user), DecodePercent(command.password)}

\* The text that was given for a credential, by the last option or the environment.
Given(name) ==
    LET named == {i \in DOMAIN command.arguments : command.arguments[i].name = name}
    IN IF named = {} THEN command[name] ELSE command.arguments[Max(named)].value

\* Credentials are decoded once, and come from the last option, the environment or the
\* endpoint, in this order; those of the endpoint have to be free of percent signs.
CredentialsAsGiven ==
    stage = "done" =>
        \A name \in {"user", "password"} :
            IF Given(name) # <<>> THEN DecodePercent(Given(name)) = {options[name]}
            ELSE Percent \notin Range(command.parts[name]) => options[name] = command.parts[name]

\* The documented forms of an endpoint are taken apart as they were put together, with
\* and without scheme, credentials and query, whatever characters are encoded in the
\* credentials, and whatever the resource and the query contain; nothing else is
\* refused than what lacks a part; and "percent-encoded credential bytes (...) are
\* decoded before SASL authentication" (docs/INSTALL.md), once.
OptionsAsWritten == EndpointTakenApart /\ RefusedForCause /\ CredentialsAsGiven

\* Credentials that the endpoint encodes reach SASL decoded once, too.
EndpointCredentialsDecodedOnce ==
    stage \in {"done", "rejected"} /\ command.arguments = <<>> /\ command.parts.info
        /\ ParseEndpoint(Written(command.parts)) # {}
        => \A name \in {"user", "password"} :
               command[name] = <<>> => options[name] = command.parts[name]
=============================================================================

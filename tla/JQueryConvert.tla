---------------------------- MODULE JQueryConvert ----------------------------
(***************************************************************************)
(* What jQuery.ajax makes of a response: ajaxHandleResponses finds out     *)
(* what it is, from what was asked for, the content type and what the      *)
(* transport has brought; ajaxConvert turns it into what was asked for, by *)
(* one or two converters for each step of the chain.  A converter throws   *)
(* when it cannot make anything of the response.                           *)
(*                                                                         *)
(* Of the response only its form is kept: a string, a document that the    *)
(* browser has parsed, or an object made of JSON.                          *)
(***************************************************************************)
EXTENDS Integers, Sequences

CONSTANTS
    TypesAsked,     \* bound: the types the page asks for, "*" among them
    MaxAsked        \* bound: how many it names for one request

ASSUME ConvertAssumption ==
    TypesAsked \subseteq STRING /\ MaxAsked \in Nat \ {0}

\* contents and converters of ajaxSettings, in the order they are looked at.
ContentTypes == {"xml", "html", "json", "script"}
converters == << <<"*", "text">>, <<"text", "html">>, <<"text", "json">>,
                 <<"text", "xml">>, <<"text", "script">> >>
\* The one that leaves the response as it is.
Equivalence == <<"text", "html">>

VARIABLES
    step,       \* "responses", "convert" or "done"
    asked,      \* the option dataType
    ct,         \* what the header content-type says, or "unknown"
    responses,  \* the types of response there are, in order
    dataTypes,
    current, turn, \* prev and i in the loop of ajaxConvert
    response,   \* its form, or "error" when converting has failed
    threw       \* history: a converter threw

convertVars == <<step, asked, ct, responses, dataTypes, current, turn, response, threw>>

\* An answer of XMLHttpRequest always has a text.
ConvertInit ==
    /\ step = "responses"
    /\ \E n \in 1..MaxAsked : asked \in [1..n -> TypesAsked]
    /\ ct \in ContentTypes \union {"unknown"}
    /\ responses \in {<<"text">>, <<"xml", "text">>}
    /\ dataTypes = asked
    /\ current = "*" /\ turn = 1 /\ response = "none" /\ threw = FALSE

form(type) ==
    CASE type = "xml" -> "document" [] type = "json" -> "object" [] OTHER -> "string"

Elems(s) == {s[k] : k \in DOMAIN s}
converts(from, to) == <<from, to>> \in Elems(converters)

\* The leading "*" stand for the type that the content type tells.
withoutAuto ==
    LET named == {k \in DOMAIN dataTypes : dataTypes[k] # "*"} IN
    IF named = {} THEN <<>>
    ELSE SubSeq(dataTypes, CHOOSE k \in named : \A l \in named : k <= l, Len(dataTypes))

\* Mutant: the content type comes first, whatever was asked for.
typesOfContent ==
    IF ct \in ContentTypes THEN <<ct>> ELSE withoutAuto

typesSought ==
    IF dataTypes[1] = "*" /\ ct \in ContentTypes THEN <<ct>> \o withoutAuto ELSE withoutAuto

\* The type there is a response for, or one that can be converted, or the first.
finalDataType(types) ==
    LET fits == {k \in DOMAIN responses : types = <<>> \/ converts(responses[k], types[1])} IN
    IF types # <<>> /\ types[1] \in Elems(responses) THEN types[1]
    ELSE responses[IF fits = {} THEN 1 ELSE CHOOSE k \in fits : \A l \in fits : k <= l]

ajaxHandleResponses ==
    /\ step = "responses"
    /\ LET final == finalDataType(typesSought) IN
       /\ dataTypes' = IF typesSought # <<>> /\ typesSought[1] = final THEN typesSought
                       ELSE <<final>> \o typesSought
       /\ current' = final
       /\ response' = form(final)
    /\ step' = "convert" /\ turn' = 2
    /\ UNCHANGED <<asked, ct, responses, threw>>

\* The converters from prev to type: one, or the first pair that leads there.
path(prev, type) ==
    LET direct == IF converts(prev, type) THEN << <<prev, type>> >>
                  ELSE IF converts("*", type) THEN << <<"*", type>> >> ELSE <<>>
        first == {k \in DOMAIN converters :
                     converters[k][1] \in {prev, "*"} /\ converts(converters[k][2], type)}
        k == CHOOSE m \in first : \A l \in first : m <= l
    IN  IF direct # <<>> THEN direct
        ELSE IF first = {} THEN <<>>
        ELSE <<converters[k], <<converters[k][2], type>> >>

\* What is really called, equivalences left out.
calledOn(conversions) == SelectSeq(conversions, LAMBDA c : c # Equivalence)

\* One turn of the loop in ajaxConvert.
ajaxConvert ==
    /\ step = "convert" /\ turn <= Len(dataTypes)
    /\ LET type == IF dataTypes[turn] = "*" THEN current ELSE dataTypes[turn]
           conversions == path(current, type)
           calls == calledOn(conversions)
       IN \/ /\ type = current
             /\ UNCHANGED <<step, response, threw>>
          \/ /\ type # current /\ conversions = <<>>        \* jQuery.error
             /\ step' = "done" /\ response' = "error"
             /\ UNCHANGED threw
          \/ /\ type # current /\ conversions # <<>>
             /\ response' = IF calls = <<>> THEN response ELSE form(calls[Len(calls)][2])
             /\ UNCHANGED <<step, threw>>
          \/ /\ type # current /\ \E k \in DOMAIN calls : calls[k] # <<"*", "text">>
             /\ step' = "done" /\ response' = "error" /\ threw' = TRUE
    /\ current' = IF dataTypes[turn] = "*" THEN current ELSE dataTypes[turn]
    /\ turn' = turn + 1
    /\ UNCHANGED <<asked, ct, responses, dataTypes>>

converted ==
    /\ step = "convert" /\ turn > Len(dataTypes)
    /\ step' = "done"
    /\ UNCHANGED <<asked, ct, responses, dataTypes, current, turn, response, threw>>

ConvertNext == ajaxHandleResponses \/ ajaxConvert \/ converted

-----------------------------------------------------------------------------
\* A success callback is handed what was asked for: the type named last, whatever
\* types come before it, the server says, or the transport has brought; the type
\* of the content when none is named.  So a poll, which asks for xml, is handed a
\* document or fails.  And it fails only when a converter threw, or when a type
\* was named that there is no converter for (jquery.js:7447-7594).
AnswerIsAsAsked ==
    step = "done" =>
        LET named == SelectSeq(asked, LAMBDA type : type # "*")
            wanted == IF named # <<>> THEN named[Len(named)]
                      ELSE IF ct \in ContentTypes THEN ct ELSE responses[1]
        IN IF response = "error"
           THEN threw \/ \E type \in Elems(named) : \A k \in DOMAIN converters : converters[k][2] # type
           ELSE response = form(wanted)
=============================================================================

--------------------------- MODULE Rfc5424Builder ---------------------------
(***************************************************************************)
(* The builder of RFC 5424 messages (rfc5424/builder.go): a SyslogMessage  *)
(* made by setters that ignore what their field cannot hold, and String.   *)
(***************************************************************************)
EXTENDS Rfc5424Machine

CONSTANTS
    Numbers,     \* values handed to SetPriority and SetVersion
    Texts,       \* texts handed to the setters of fields and elements
    Values,      \* texts handed to SetParameter and SetMessage
    MaxSets      \* bound: setters called on one message

ASSUME BuilderAssumption ==
    /\ Numbers \subseteq Nat /\ MaxSets \in Nat
    /\ \A t \in Texts \cup Values : t \in Seq(Tokens)

VARIABLES sm, sets

builderVars == <<sm, sets>>

BuilderInit == sm = Nothing /\ sets = 0

(* setWithCtx from one of its entry points: a value the rule of the field   *)
(* does not match to its end runs no action.                                *)
IsName(t, f) == Len(t) \in 1..NameRange[f] /\ \A i \in DOMAIN t : t[i] \notin NotGraph
IsSDName(t)  == IsName(t, "sdname") /\ \A i \in DOMAIN t : t[i] \in NameTokens

(* sdpv: the places of the backslashes that escape, and whether all that    *)
(* must be escaped is.                                                      *)
Scanned(v) ==
    LET step(s, i) ==
            IF s.open THEN [s EXCEPT !.open = FALSE, !.ok = @ /\ v[i] \in Delims]
            ELSE IF v[i] = "\\" THEN [s EXCEPT !.open = TRUE, !.at = @ \cup {i}]
            ELSE [s EXCEPT !.ok = @ /\ v[i] \notin {"\"", "]", "cut", "bad"}]
        scan[i \in 0..Len(v)] ==
            IF i = 0 THEN [open |-> FALSE, ok |-> TRUE, at |-> {}] ELSE step(scan[i - 1], i)
    IN  scan[Len(v)]
IsValue(v) == Scanned(v).ok /\ ~Scanned(v).open

WithElement(data, id) ==
    IF IsSDName(id) /\ id \notin DOMAIN data THEN Put(data, id, EmptyMap) ELSE data

(* set_sdpn stores an empty value, whatever there was; set_sdpv the value,  *)
(* if it is one, without the backslashes that escape.                       *)
WithParameter(data, id, name, value) ==
    IF id \in DOMAIN data /\ IsSDName(name)
    THEN [data EXCEPT ![id] =
             Put(@, name, IF IsValue(value) THEN RemoveBytes(value, Scanned(value).at) ELSE <<>>)]
    ELSE data

Set(after) == sets < MaxSets /\ sets' = sets + 1 /\ sm' = after

SetPriority(v)  == Set(IF ValidPriority(v) THEN [sm EXCEPT !.priority = v] ELSE sm)
SetVersion(v)   == Set(IF ValidVersion(v) THEN [sm EXCEPT !.version = v] ELSE sm)
SetTimestamp(t) == Set(IF t = <<"ts">> THEN [sm EXCEPT !.timestamp = "ts"] ELSE sm)
SetName(f, t)   == Set(IF IsName(t, f) /\ t # <<"-">> THEN [sm EXCEPT !.name[f] = t] ELSE sm)
SetElementID(t) == Set([sm EXCEPT !.structuredData = WithElement(@, t)])
SetParameter(id, name, v) ==
    Set([sm EXCEPT !.structuredData = WithParameter(WithElement(@, id), id, name, v)])
SetMessage(t)   == Set(IF t # <<>> THEN [sm EXCEPT !.message = t] ELSE sm)

BuilderNext ==
    \/ \E v \in Numbers : SetPriority(v) \/ SetVersion(v)
    \/ \E t \in Texts : \/ SetTimestamp(t) \/ SetElementID(t)
                        \/ \E f \in NameFields : SetName(f, t)
    \/ \E id, name \in Texts, v \in Values : SetParameter(id, name, v)
    \/ \E t \in Values : SetMessage(t)

-----------------------------------------------------------------------------
(* String, in tokens.  sort.Strings fixes an order; which one it is does    *)
(* not matter.                                                              *)
HasString == sm.priority # Absent /\ Valid(sm)

Decimal(n) == CHOOSE t \in UNION {[1..k -> Digits] : k \in 1..3} :
                  /\ UnsafeUTF8DecimalCodePointsToInt(t) = n
                  /\ Len(t) > 1 => t[1] # "0"
OrNil(t) == IF t = <<>> THEN <<"-">> ELSE t

ParamString(params, n) == <<" ">> \o n \o <<"=", "\"">> \o EscapeBytes(params[n]) \o <<"\"">>
ElementString(data, id) ==
    LET names == SetToSeq(DOMAIN data[id])
    IN  <<"[">> \o id \o FlattenSeq([i \in DOMAIN names |-> ParamString(data[id], names[i])])
        \o <<"]">>
DataString(data) ==
    LET ids == SetToSeq(DOMAIN data)
    IN  OrNil(FlattenSeq([i \in DOMAIN ids |-> ElementString(data, ids[i])]))
NameString(f) == <<" ">> \o OrNil(sm.name[f])

String ==
    <<"<">> \o Decimal(sm.priority) \o <<">">> \o Decimal(sm.version)
    \o <<" ", IF sm.timestamp = "" THEN "-" ELSE sm.timestamp>>
    \o NameString("hostname") \o NameString("appname") \o NameString("procid")
    \o NameString("msgid") \o <<" ">> \o DataString(sm.structuredData)
    \o (IF sm.message = <<>> THEN <<>> ELSE <<" ">> \o sm.message)
=============================================================================

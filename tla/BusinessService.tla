-------------------------- MODULE BusinessService --------------------------
(***************************************************************************)
(* domain.ParseBusinessService: how the Business service cell of a ticket  *)
(* becomes platform, client, country and product, as its loop runs.        *)
(* A cell is the sequence strings.Fields makes of it, a field a sequence   *)
(* of hyphens and of words without one.                                    *)
(***************************************************************************)
EXTENDS Integers, FiniteSets, Sequences, FiniteSetsExt

CONSTANT
    Nil  \* a nil pointer

ASSUME NilAssumption == Nil \notin Seq(STRING) \cup Seq(Seq(STRING))

VARIABLES
    tokens,  \* the fields
    token,   \* the place of the one the loop looks at
    bs       \* what is returned; Nil before

serviceVars == <<tokens, token, bs>>

\* strings.LastIndex(token, "-"), from 1; 0 when there is none.
LastHyphen(t) == Max({0} \cup {k \in DOMAIN t : t[k] = "-"})

\* Mutant: split at the first hyphen.
SplitAt_First(t) ==
    IF \E k \in DOMAIN t : t[k] = "-"
    THEN CHOOSE k \in DOMAIN t : t[k] = "-" /\ \A l \in 1 .. k - 1 : t[l] # "-"
    ELSE 0

SplitAt(t) == LastHyphen(t)

\* Mutant: a hyphen at the end of a token splits it too.
Splits_AtEnd(t) == SplitAt(t) > 1

\* idx is neither -1 nor 0 nor the last place.
Splits(t) == SplitAt(t) > 1 /\ SplitAt(t) < Len(t)

\* Mutant: the slice starts one token late.
Rest_Late(s, from) == IF from >= Len(s) THEN Nil ELSE SubSeq(s, from + 1, Len(s))

\* What is left of s, nil when nothing is.
Rest(s, from) == IF from > Len(s) THEN Nil ELSE SubSeq(s, from, Len(s))

ServiceCalled == token = 2 /\ bs = Nil

Empty ==
    /\ tokens = <<>> /\ bs = Nil
    /\ bs' = [error |-> TRUE]
    /\ UNCHANGED <<tokens, token>>

Skip ==
    /\ bs = Nil /\ token <= Len(tokens) /\ ~Splits(tokens[token])
    /\ token' = token + 1
    /\ UNCHANGED <<tokens, bs>>

Client ==
    /\ bs = Nil /\ token <= Len(tokens) /\ Splits(tokens[token])
    /\ bs' = [error      |-> FALSE,
              Platform    |-> tokens[1],
              ClientName  |-> SubSeq(tokens[token], 1, SplitAt(tokens[token]) - 1),
              CountryCode |-> SubSeq(tokens[token], SplitAt(tokens[token]) + 1, Len(tokens[token])),
              Product     |-> Rest(tokens, token + 1)]
    /\ UNCHANGED <<tokens, token>>

Internal ==
    /\ bs = Nil /\ tokens # <<>> /\ token > Len(tokens)
    /\ bs' = [error |-> FALSE, Platform |-> tokens[1], ClientName |-> Nil,
              CountryCode |-> Nil, Product |-> Rest(tokens, 2)]
    /\ UNCHANGED <<tokens, token>>

ServiceNext == Empty \/ Skip \/ Client \/ Internal

-----------------------------------------------------------------------------
Returned == bs # Nil /\ ~bs.error

\* Nothing but tokens between the platform and the client is dropped: what is
\* returned reads, in order, as the first token and an end of the cell, whose
\* next token is the client and its country, cut so that the country holds no
\* hyphen however many the client's name has.  An internal service keeps every
\* token.
PartsOfTheCell ==
    Returned =>
      LET product == IF bs.Product = Nil THEN <<>> ELSE bs.Product
          tail    == IF bs.ClientName = Nil THEN product
                     ELSE <<bs.ClientName \o <<"-">> \o bs.CountryCode>> \o product
      IN /\ bs.Platform = tokens[1]
         /\ Len(tail) < Len(tokens)
         /\ tail = SubSeq(tokens, Len(tokens) - Len(tail) + 1, Len(tokens))
         /\ bs.ClientName = Nil <=> bs.CountryCode = Nil
         /\ IF bs.ClientName = Nil
            THEN Len(tail) = Len(tokens) - 1
            ELSE /\ bs.ClientName # <<>> /\ bs.CountryCode # <<>>
                 /\ \A k \in DOMAIN bs.CountryCode : bs.CountryCode[k] # "-"
=============================================================================

----------------------------- MODULE MCExchange -----------------------------
(***************************************************************************)
(* Small instances of Exchange for TLC.  An e-mail address has a shared    *)
(* generator that makes one stand-in and then runs out, a telephone number *)
(* a generator of one country only, a credential none.                     *)
(***************************************************************************)
EXTENDS Exchange, TLC

CONSTANTS alice, bob, s1, s2

MCPrefix == [c \in Categories |-> c]
MCGenerators == {<<c, l>> \in {<<"EMAIL", "any">>, <<"PHONE", "fr">>} :
                   c \in Categories /\ l \in Locales \union {Shared}}
MCCapacity == [g \in MCGenerators |-> 1]
MCTexts == {"EMAIL", "PHONE"} \X {"any", "fr"} \X (1..1)
MCStandInText(c, t, i) == <<c, t, i>>

Occ(v, c, l) == [value |-> v, cat |-> c, locale |-> l]
Body(s, ss) == [session |-> s, issuer |-> FALSE, declared |-> {}, strings |-> ss]

Email(v) == Occ(v, "EMAIL", "any")
Phone(v) == Occ(v, "PHONE", "fr")
Credential(v) == Occ(v, "SECRET", "any")

\* Two conversations with a value in common.
ConversationBodies ==
  { Body(s1, <<{Email(alice)}>>),
    Body(s1, <<{Email(bob)}>>),
    Body(s2, <<{Email(bob)}>>) }

\* Values that come back under another category, an identifier declared to its
\* issuer and to another host, and a request without a body.
PolicyBodies ==
  { Body(s1, <<{Email(bob)}, {Phone(alice), Credential(bob)}>>),
    [session |-> s1, issuer |-> TRUE, declared |-> {alice},
     strings |-> <<{Email(alice)}, {Phone(bob)}>>],
    [session |-> s1, issuer |-> FALSE, declared |-> {alice},
     strings |-> <<{Email(alice)}>>],
    Body(s1, <<>>) }

Symmetry == Permutations(Requests)
=============================================================================

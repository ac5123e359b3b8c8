------------------------------ MODULE Streams ------------------------------
(***************************************************************************)
(* Facts about a watch stream, the sequence of the versions of an object   *)
(* from the one a cache holds to the one the API server stores: what a     *)
(* write, which appends a version, and a delivery, which drops the first,  *)
(* make of it.                                                             *)
(***************************************************************************)
EXTENDS Naturals, Sequences, SequenceTheorems, TLAPS

\* The cached and the stored version of a stream that is not empty.
LEMMA EndsOfStream ==
    ASSUME NEW S, NEW s \in Seq(S), Len(s) >= 1
    PROVE  s[1] \in S /\ s[Len(s)] \in S
BY ElementOfSeq, LenProperties

\* A write adds one version behind those there are.
LEMMA GrownStream ==
    ASSUME NEW S, NEW s \in Seq(S), NEW e \in S
    PROVE  /\ Append(s, e) \in Seq(S)
           /\ Len(Append(s, e)) = Len(s) + 1
           /\ \A i \in 1..Len(s) : Append(s, e)[i] = s[i]
           /\ Append(s, e)[Len(s) + 1] = e
BY AppendProperties

\* A delivery drops the oldest version, and the others move up.
LEMMA ShortenedStream ==
    ASSUME NEW S, NEW s \in Seq(S), Len(s) > 1
    PROVE  /\ Tail(s) \in Seq(S)
           /\ Len(Tail(s)) = Len(s) - 1
           /\ \A i \in 1..Len(s) - 1 : Tail(s)[i] = s[i + 1]
<1>1. s # << >>
  BY EmptySeq
<1> QED
  BY <1>1, HeadTailProperties

\* A list of what is stored is a stream of one version.
LEMMA SingletonStream ==
    ASSUME NEW S, NEW e \in S
    PROVE  <<e>> \in Seq(S) /\ Len(<<e>>) = 1 /\ <<e>>[1] = e
OBVIOUS

=============================================================================

------------------------------ MODULE MCDefrag ------------------------------
(* Defrag over every chain of up to MaxFrames frames of six messages: one   *)
(* and, for each field of the key, one that differs from it in that field.  *)
EXTENDS Defrag

Base == [dst |-> 1, src |-> 1, mmv |-> 1, mmtype |-> 1, fmsn |-> 1]

Header == {Base} \cup {[Base EXCEPT ![field] = 2] : field \in DOMAIN Base}

\* A whole message, or either half of one in two fragments.
Fragment == {[nf |-> 0, fn |-> 0], [nf |-> 1, fn |-> 0], [nf |-> 1, fn |-> 1]}

MCFrame ==
    {[dst |-> h.dst, src |-> h.src, mmv |-> h.mmv, mmtype |-> h.mmtype,
      fmsn |-> h.fmsn, nf |-> f.nf, fn |-> f.fn] :
        h \in Header, f \in Fragment}
=============================================================================

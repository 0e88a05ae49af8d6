------------------------------- MODULE MCI2c --------------------------------
(* The transfers of the I2C run. *)
EXTENDS S3CI2c

MaxLen == 2

Writes == {m \in [rd: {FALSE}, len: 0..MaxLen, nostart: BOOLEAN, ign: BOOLEAN] :
             m.ign => m.len = 1}

Reads == {m \in [rd: {TRUE}, len: 0..MaxLen, nostart: {FALSE}, ign: BOOLEAN] :
            m.ign => m.len = 1}

Plain(S) == {m \in S : ~m.nostart}

(* One, two or three messages, of which only the last may be a read. *)
SupportedTransfers ==
  LET one == {<<m>> : m \in Plain(Writes) \cup Reads}
      two == {<<a, b>> : a \in Plain(Writes), b \in Writes \cup Reads}
      three == {<<a, b, c>> : a \in {m \in Plain(Writes) : m.len = 1 /\ ~m.ign},
                  b \in {m \in Writes : m.len < 2 /\ ~m.ign},
                  c \in {m \in Writes \cup Reads : m.len < 2 /\ ~m.ign}}
  IN one \cup two \cup three
=============================================================================

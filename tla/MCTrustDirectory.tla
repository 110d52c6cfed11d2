------------------------- MODULE MCTrustDirectory -------------------------
(***************************************************************************)
(* Two CA certificates in up to two files, and the sources that the        *)
(* loaders tell apart.                                                     *)
(***************************************************************************)
EXTENDS TrustDirectory

MCNames == {1, 2}

pem(certs) == [enc |-> "PEM", certs |-> certs]
der(certs) == [enc |-> "DER", certs |-> certs]

directory(files) == [kind |-> "dir", files |-> files]
bundle(content) == [kind |-> "file", files |-> [f \in {Bundle} |-> content]]
missing == [kind |-> "missing", files |-> <<>>]

(* Every directory of at most two files with at most one certificate each. *)
Directories ==
  UNION {{directory(files) : files \in [F -> {pem({c}) : c \in CAs} \cup {pem({})}]} :
           F \in SUBSET MCNames}

MCSources ==
  Directories \cup {missing, bundle(pem(CAs)), bundle(pem({}))}
    \cup {bundle(der({c})) : c \in CAs}
===========================================================================

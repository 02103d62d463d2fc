------------------------------ MODULE CertStore ------------------------------
(***************************************************************************)
(* The certificates that outlive the program: the local authority and the  *)
(* proxy's own certificate, each a key file and a certificate file, written *)
(* one after the other at start.  From ca.py (load_ca, create_ca,          *)
(* issue_leaf, is_signed_by), the head of cli.run_proxy, and               *)
(* helper.certificate_expires_soon.                                        *)
(*                                                                         *)
(* A file is written in two steps: opening it empties it, then the bytes   *)
(* go in.  The program may die between any two steps, of itself (a full    *)
(* disk) or not, and starts again from the files alone.  What was written  *)
(* stays written: the loss of the machine's own cache is not modelled.     *)
(***************************************************************************)
EXTENDS FiniteSets

CONSTANTS
    Keys,         \* the key pairs there are to generate
    Addresses,    \* the addresses the proxy may be reached at
    Absent,       \* a file that does not exist, a value not held
    Torn          \* a file that exists and cannot be read

(* The proxy's certificate: whose key it certifies, who signed it, the     *)
(* addresses it lists, and whether it is about to expire.                  *)
Leaves == [key : Keys, signer : Keys, covers : SUBSET Addresses, due : BOOLEAN]
Unreadable == {Absent, Torn}

(* A start of the program: --advertise-ip, if given, and every address the *)
(* certificate would list (bind, when it is not the wildcard).             *)
Starts == [advertise : Addresses \cup {Absent}, covers : SUBSET Addresses]
NoStart == [advertise |-> Absent, covers |-> {}]
ProperStart(s) == s.advertise # Absent => s.advertise \in s.covers

ASSUME FilesAssumption ==
    /\ Keys # {} /\ Absent # Torn
    /\ Unreadable \cap (Keys \cup Leaves) = {}
    /\ Absent \notin Addresses \cup Starts

VARIABLES
    disk,     \* the four files
    phase,    \* "down", "load", the file being written, "check", "issued", "serving"
    opened,   \* the file being written is open, and empty
    start,    \* how the program was started
    ca,       \* the authority in memory
    leaf,     \* the certificate being issued
    cut       \* history: the start whose issue was never completed

certVars == <<disk, phase, opened, start, ca, leaf, cut>>

Files == {"caKey", "caCert", "leafKey", "leafCert"}
Phases == Files \cup {"down", "load", "check", "issued", "serving"}

CertTypeOK ==
    /\ disk \in [caKey : Keys \cup Unreadable, caCert : Keys \cup Unreadable,
                 leafKey : Keys \cup Unreadable, leafCert : Leaves \cup Unreadable]
    /\ phase \in Phases /\ opened \in BOOLEAN
    /\ opened => phase \in Files
    /\ start \in Starts /\ ProperStart(start)
    /\ ca \in Keys \cup {Absent}
    /\ leaf \in Leaves \cup {Absent}
    /\ cut \in Starts \cup {Absent}

(* A fresh directory, or one of a version that signed its own certificate  *)
(* (with some key: which one makes no difference).                         *)
SomeKey == CHOOSE k \in Keys : TRUE
EarlierLeaf(k, covers) == [key |-> k, signer |-> k, covers |-> covers, due |-> FALSE]
CertInit ==
    /\ \/ disk = [caKey |-> Absent, caCert |-> Absent,
                 leafKey |-> Absent, leafCert |-> Absent]
       \/ \E covers \in SUBSET Addresses :
             disk = [caKey |-> Absent, caCert |-> Absent,
                     leafKey |-> SomeKey, leafCert |-> EarlierLeaf(SomeKey, covers)]
    /\ phase = "down" /\ opened = FALSE
    /\ start = NoStart
    /\ ca = Absent /\ leaf = Absent
    /\ cut = Absent

-----------------------------------------------------------------------------
(* Keys are never generated twice: one that no file and no variable holds. *)

Known(c) == IF c \in Unreadable THEN {} ELSE {c.key, c.signer}
InUse == {disk.caKey, disk.caCert, disk.leafKey, ca} \cup Known(disk.leafCert) \cup Known(leaf)
Fresh == CHOOSE k \in Keys : k \notin InUse
CanGenerate == Keys \ InUse # {}

(* open(..., "wb"), then the bytes. *)
Open(file) ==
    /\ phase = file /\ ~opened
    /\ disk' = [disk EXCEPT ![file] = Torn]
    /\ opened' = TRUE
    /\ UNCHANGED <<phase, start, ca, leaf, cut>>

Fill(file, content, next) ==
    /\ phase = file /\ opened
    /\ disk' = [disk EXCEPT ![file] = content]
    /\ opened' = FALSE
    /\ phase' = next
    /\ UNCHANGED start

Boot(s) ==
    /\ phase = "down"
    /\ phase' = "load"
    /\ start' = s
    /\ UNCHANGED <<disk, opened, ca, leaf, cut>>

(* load_ca *)
AuthorityReadable == disk.caCert \notin Unreadable /\ disk.caKey \notin Unreadable

LoadAuthority ==
    /\ phase = "load"
    /\ AuthorityReadable
    /\ ca' = disk.caKey      \* the key that signs; is it that of the certificate?
    /\ phase' = "check"
    /\ UNCHANGED <<disk, opened, start, leaf, cut>>

(* create_ca: the key file, then the certificate file. *)
CreateAuthority ==
    /\ phase = "load"
    /\ ~AuthorityReadable
    /\ CanGenerate
    /\ ca' = Fresh
    /\ phase' = "caKey"
    /\ UNCHANGED <<disk, opened, start, leaf, cut>>

(* Mutant of WriteAuthority: the certificate file, then the key file. *)
WriteAuthoritySwapped ==
    \/ phase = "caKey" /\ phase' = "caCert" /\ ~opened /\ disk.caCert # ca
       /\ UNCHANGED <<disk, opened, start, ca, leaf, cut>>
    \/ Open("caCert")
    \/ Fill("caCert", ca, "caKey") /\ UNCHANGED <<ca, leaf, cut>>
    \/ disk.caCert = ca /\ Open("caKey")
    \/ Fill("caKey", ca, "check") /\ UNCHANGED <<ca, leaf, cut>>

WriteAuthority ==
    \/ Open("caKey")
    \/ Fill("caKey", ca, "caCert") /\ UNCHANGED <<ca, leaf, cut>>
    \/ Open("caCert")
    \/ Fill("caCert", ca, "check") /\ UNCHANGED <<ca, leaf, cut>>

(* Each question reads the file anew: one that cannot be read is signed by *)
(* nobody, covers nothing and expires soon.                                *)
SignedBy(authority) == disk.leafCert \in Leaves /\ disk.leafCert.signer = authority
Covers(address) == disk.leafCert \in Leaves /\ address \in disk.leafCert.covers
ExpiresSoon == disk.leafCert \in Leaves => disk.leafCert.due

(* Mutant of Keepable: the issuer is compared by name. *)
KeepableByName ==
    /\ disk.leafKey # Absent /\ disk.leafCert \in Leaves
    /\ start.advertise # Absent => Covers(start.advertise)
    /\ ~ExpiresSoon

(* What keeps a certificate from being issued again.  Of the key file only *)
(* its existence is asked.                                                 *)
Keepable ==
    /\ disk.leafKey # Absent /\ disk.leafCert # Absent
    /\ SignedBy(disk.caCert)
    /\ start.advertise # Absent => Covers(start.advertise)
    /\ ~ExpiresSoon

KeepLeaf ==
    /\ phase = "check"
    /\ Keepable
    /\ phase' = "issued"
    /\ ca' = Absent         \* not used any more
    /\ UNCHANGED <<disk, opened, start, leaf, cut>>

(* issue_leaf: again the key file, then the certificate file. *)
IssueLeaf ==
    /\ phase = "check"
    /\ ~Keepable
    /\ CanGenerate
    /\ leaf' = [key |-> Fresh, signer |-> ca, covers |-> start.covers, due |-> FALSE]
    /\ cut' = start
    /\ phase' = "leafKey"
    /\ UNCHANGED <<disk, opened, start, ca>>

WriteLeaf ==
    \/ Open("leafKey")
    \/ Fill("leafKey", leaf.key, "leafCert") /\ UNCHANGED <<ca, leaf, cut>>
    \/ Open("leafCert")
    \/ Fill("leafCert", leaf, "issued") /\ ca' = Absent /\ leaf' = Absent /\ cut' = Absent

(* ssl.SSLContext.load_cert_chain, in the start of the services. *)
PairLoads == disk.leafKey \in Keys /\ disk.leafCert \in Leaves
             /\ disk.leafKey = disk.leafCert.key

Serve ==
    /\ phase = "issued"
    /\ PairLoads
    /\ phase' = "serving"
    /\ start' = NoStart      \* done with, here
    /\ UNCHANGED <<disk, opened, ca, leaf, cut>>

(* The certificate comes within CERT_RENEWAL_MARGIN_DAYS of its end. *)
Age ==
    /\ disk.leafCert \notin Unreadable /\ ~disk.leafCert.due
    /\ disk' = [disk EXCEPT !.leafCert.due = TRUE]
    /\ UNCHANGED <<phase, opened, start, ca, leaf, cut>>

(* The program ends, killed, stopped or by an error, and its memory with it. *)
Die ==
    /\ phase # "down"
    /\ phase' = "down"
    /\ opened' = FALSE
    /\ start' = NoStart
    /\ ca' = Absent /\ leaf' = Absent
    /\ UNCHANGED <<disk, cut>>

CertStep ==
    \/ LoadAuthority \/ CreateAuthority \/ WriteAuthority
    \/ KeepLeaf \/ IssueLeaf \/ WriteLeaf

CertNext ==
    \/ \E s \in Starts : ProperStart(s) /\ Boot(s)
    \/ CertStep \/ Serve \/ Age \/ Die

CertSpec == CertInit /\ [][CertNext]_certVars

-----------------------------------------------------------------------------
(* Properties *)

(* Once the authority's certificate is written, no crash, restart or later *)
(* start ever replaces it or its key: clients were told to trust it, and   *)
(* load_ca regenerates whatever it cannot read.                            *)
AuthorityKept ==
    [][disk.caCert \in Keys => UNCHANGED <<disk.caCert, disk.caKey>>]_certVars

(* Whatever was interrupted before, a start goes on to its services with a *)
(* certificate whose key it has, signed by the authority clients trust,    *)
(* for the address they dial.  The exception: a start with other addresses *)
(* than the one that was interrupted may find nothing wrong with the old   *)
(* certificate, whose key is already replaced.                             *)
PairTrusted ==
    phase = "issued" /\ cut \in {Absent, start} =>
        /\ PairLoads
        /\ disk.leafCert.signer = disk.caCert
        /\ start.advertise # Absent => start.advertise \in disk.leafCert.covers
=============================================================================

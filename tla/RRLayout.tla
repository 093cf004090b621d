------------------------------ MODULE RRLayout ------------------------------
(***************************************************************************)
(* What the data of a resource record consists of, three times over: as    *)
(* the generated functions of zmsg.go unpack it and pack it, and as the    *)
(* generated len functions of ztypes.go count it.  A layout is the         *)
(* sequence of the calls a function makes, each named for what it reads    *)
(* or writes:                                                              *)
(*                                                                         *)
(*   u8 .. u64    unsigned integers        a, aaaa      addresses          *)
(*   name, cname  a domain name, a domain name that may be compressed      *)
(*   names        domain names             string, txt  one string, many   *)
(*   octet        text to the end          nsec, opt    bitmap, options    *)
(*   hex, b64, b32       octets to the end, by the text they stand for     *)
(*   hexN, b64N, b32N    as many octets as a field before them says        *)
(***************************************************************************)
EXTENDS Integers, TLC

PackAtoCDS ==
  [A |-> <<"a">>, AAAA |-> <<"aaaa">>, AFSDB |-> <<"u16", "cname">>,
   ANY |-> <<>>, AVC |-> <<"txt">>, CAA |-> <<"u8", "string", "octet">>,
   CDNSKEY |-> <<"u16", "u8", "u8", "b64">>,
   CDS |-> <<"u16", "u8", "u8", "hex">>]

PackCERTtoDS ==
  [CERT |-> <<"u16", "u16", "u8", "b64">>, CNAME |-> <<"cname">>,
   DHCID |-> <<"b64">>, DLV |-> <<"u16", "u8", "u8", "hex">>,
   DNAME |-> <<"name">>, DNSKEY |-> <<"u16", "u8", "u8", "b64">>,
   DS |-> <<"u16", "u8", "u8", "hex">>]

PackEIDtoHIP ==
  [EID |-> <<"hex">>, EUI48 |-> <<"u48">>, EUI64 |-> <<"u64">>,
   GID |-> <<"u32">>, GPOS |-> <<"string", "string", "string">>,
   HINFO |-> <<"string", "string">>,
   HIP |-> <<"u8", "u8", "u16", "hex", "b64", "names">>]

PackKEYtoMB ==
  [KEY |-> <<"u16", "u8", "u8", "b64">>, KX |-> <<"u16", "name">>,
   L32 |-> <<"u16", "a">>, L64 |-> <<"u16", "u64">>,
   LOC |-> <<"u8", "u8", "u8", "u8", "u32", "u32", "u32">>,
   LP |-> <<"u16", "name">>, MB |-> <<"cname">>]

PackMDtoNID ==
  [MD |-> <<"cname">>, MF |-> <<"cname">>, MG |-> <<"cname">>,
   MINFO |-> <<"cname", "cname">>, MR |-> <<"cname">>,
   MX |-> <<"u16", "cname">>,
   NAPTR |-> <<"u16", "u16", "string", "string", "string", "name">>,
   NID |-> <<"u16", "u64">>]

PackNIMLOCtoNSEC3 ==
  [NIMLOC |-> <<"hex">>, NINFO |-> <<"txt">>, NS |-> <<"cname">>,
   NSAPPTR |-> <<"name">>, NSEC |-> <<"name", "nsec">>,
   NSEC3 |-> <<"u8", "u8", "u16", "u8", "hex", "u8", "b32", "nsec">>]

PackNSEC3PARAMtoRKEY ==
  [NSEC3PARAM |-> <<"u8", "u8", "u16", "u8", "hex">>,
   OPENPGPKEY |-> <<"b64">>, OPT |-> <<"opt">>, PTR |-> <<"cname">>,
   PX |-> <<"u16", "name", "name">>, RFC3597 |-> <<"hex">>,
   RKEY |-> <<"u16", "u8", "u8", "b64">>]

PackRPtoSIG ==
  [RP |-> <<"name", "name">>,
   RRSIG |-> <<"u16", "u8", "u8", "u32", "u32", "u32", "u16", "name", "b64">>,
   RT |-> <<"u16", "cname">>,
   SIG |-> <<"u16", "u8", "u8", "u32", "u32", "u32", "u16", "name", "b64">>]

PackSMIMEAtoSSHFP ==
  [SMIMEA |-> <<"u8", "u8", "u8", "hex">>,
   SOA |-> <<"cname", "cname", "u32", "u32", "u32", "u32", "u32">>,
   SPF |-> <<"txt">>, SRV |-> <<"u16", "u16", "u16", "name">>,
   SSHFP |-> <<"u8", "u8", "hex">>]

PackTAtoTLSA ==
  [TA |-> <<"u16", "u8", "u8", "hex">>, TALINK |-> <<"name", "name">>,
   TKEY |-> <<"name", "u32", "u32", "u16", "u16", "u16", "string", "u16",
            "string">>,
   TLSA |-> <<"u8", "u8", "u8", "hex">>]

PackTSIGtoX25 ==
  [TSIG |-> <<"name", "u48", "u16", "u16", "hex", "u16", "u16", "u16", "hex">>,
   TXT |-> <<"txt">>, UID |-> <<"u32">>, UINFO |-> <<"string">>,
   URI |-> <<"u16", "u16", "octet">>, X25 |-> <<"string">>]

Packing ==
  PackAtoCDS @@ PackCERTtoDS @@ PackEIDtoHIP @@ PackKEYtoMB @@ PackMDtoNID @@
  PackNIMLOCtoNSEC3 @@ PackNSEC3PARAMtoRKEY @@ PackRPtoSIG @@
  PackSMIMEAtoSSHFP @@ PackTAtoTLSA @@ PackTSIGtoX25

-----------------------------------------------------------------------------
UnpackAtoCAA ==
  [A |-> <<"a">>, AAAA |-> <<"aaaa">>, AFSDB |-> <<"u16", "name">>,
   ANY |-> <<>>, AVC |-> <<"txt">>, CAA |-> <<"u8", "string", "octet">>]

UnpackCDNSKEYtoDHCID ==
  [CDNSKEY |-> <<"u16", "u8", "u8", "b64">>,
   CDS |-> <<"u16", "u8", "u8", "hex">>,
   CERT |-> <<"u16", "u16", "u8", "b64">>, CNAME |-> <<"name">>,
   DHCID |-> <<"b64">>]

UnpackDLVtoEID ==
  [DLV |-> <<"u16", "u8", "u8", "hex">>, DNAME |-> <<"name">>,
   DNSKEY |-> <<"u16", "u8", "u8", "b64">>,
   DS |-> <<"u16", "u8", "u8", "hex">>, EID |-> <<"hex">>]

UnpackEUI48toHINFO ==
  [EUI48 |-> <<"u48">>, EUI64 |-> <<"u64">>, GID |-> <<"u32">>,
   GPOS |-> <<"string", "string", "string">>, HINFO |-> <<"string", "string">>]

UnpackHIPtoL32 ==
  [HIP |-> <<"u8", "u8", "u16", "hexN", "b64N", "names">>,
   KEY |-> <<"u16", "u8", "u8", "b64">>, KX |-> <<"u16", "name">>,
   L32 |-> <<"u16", "a">>]

UnpackL64toMD ==
  [L64 |-> <<"u16", "u64">>,
   LOC |-> <<"u8", "u8", "u8", "u8", "u32", "u32", "u32">>,
   LP |-> <<"u16", "name">>, MB |-> <<"name">>, MD |-> <<"name">>]

UnpackMFtoNAPTR ==
  [MF |-> <<"name">>, MG |-> <<"name">>, MINFO |-> <<"name", "name">>,
   MR |-> <<"name">>, MX |-> <<"u16", "name">>,
   NAPTR |-> <<"u16", "u16", "string", "string", "string", "name">>]

UnpackNIDtoNSEC ==
  [NID |-> <<"u16", "u64">>, NIMLOC |-> <<"hex">>, NINFO |-> <<"txt">>,
   NS |-> <<"name">>, NSAPPTR |-> <<"name">>, NSEC |-> <<"name", "nsec">>]

UnpackNSEC3toOPT ==
  [NSEC3 |-> <<"u8", "u8", "u16", "u8", "hexN", "u8", "b32N", "nsec">>,
   NSEC3PARAM |-> <<"u8", "u8", "u16", "u8", "hexN">>,
   OPENPGPKEY |-> <<"b64">>, OPT |-> <<"opt">>]

UnpackPTRtoRP ==
  [PTR |-> <<"name">>, PX |-> <<"u16", "name", "name">>,
   RFC3597 |-> <<"hex">>, RKEY |-> <<"u16", "u8", "u8", "b64">>,
   RP |-> <<"name", "name">>]

UnpackRRSIGtoRT ==
  [RRSIG |-> <<"u16", "u8", "u8", "u32", "u32", "u32", "u16", "name", "b64">>,
   RT |-> <<"u16", "name">>]

UnpackSIGtoSMIMEA ==
  [SIG |-> <<"u16", "u8", "u8", "u32", "u32", "u32", "u16", "name", "b64">>,
   SMIMEA |-> <<"u8", "u8", "u8", "hex">>]

UnpackSOAtoSSHFP ==
  [SOA |-> <<"name", "name", "u32", "u32", "u32", "u32", "u32">>,
   SPF |-> <<"txt">>, SRV |-> <<"u16", "u16", "u16", "name">>,
   SSHFP |-> <<"u8", "u8", "hex">>]

UnpackTAtoTKEY ==
  [TA |-> <<"u16", "u8", "u8", "hex">>, TALINK |-> <<"name", "name">>,
   TKEY |-> <<"name", "u32", "u32", "u16", "u16", "u16", "string", "u16",
            "string">>]

UnpackTLSAtoUID ==
  [TLSA |-> <<"u8", "u8", "u8", "hex">>,
   TSIG |-> <<"name", "u48", "u16", "u16", "hexN", "u16", "u16", "u16",
            "hexN">>,
   TXT |-> <<"txt">>, UID |-> <<"u32">>]

UnpackUINFOtoX25 ==
  [UINFO |-> <<"string">>, URI |-> <<"u16", "u16", "octet">>,
   X25 |-> <<"string">>]

Unpacking ==
  UnpackAtoCAA @@ UnpackCDNSKEYtoDHCID @@ UnpackDLVtoEID @@
  UnpackEUI48toHINFO @@ UnpackHIPtoL32 @@ UnpackL64toMD @@ UnpackMFtoNAPTR @@
  UnpackNIDtoNSEC @@ UnpackNSEC3toOPT @@ UnpackPTRtoRP @@ UnpackRRSIGtoRT @@
  UnpackSIGtoSMIMEA @@ UnpackSOAtoSSHFP @@ UnpackTAtoTKEY @@
  UnpackTLSAtoUID @@ UnpackUINFOtoX25

(* typeToUnpack: a type it does not know is read as octets to the end. *)
Unpacked(t) ==
  IF t \in DOMAIN Unpacking THEN Unpacking[t] ELSE Unpacking.RFC3597

-----------------------------------------------------------------------------
LenAtoHINFO ==
  [A |-> <<"a">>, AAAA |-> <<"aaaa">>, AFSDB |-> <<"u16", "name">>,
   ANY |-> <<>>, AVC |-> <<"txt">>, CAA |-> <<"u8", "string", "octet">>,
   CERT |-> <<"u16", "u16", "u8", "b64">>, CNAME |-> <<"name">>,
   DHCID |-> <<"b64">>, DNAME |-> <<"name">>,
   DNSKEY |-> <<"u16", "u8", "u8", "b64">>,
   DS |-> <<"u16", "u8", "u8", "hex">>, EID |-> <<"hex">>,
   EUI48 |-> <<"u48">>, EUI64 |-> <<"u64">>, GID |-> <<"u32">>,
   GPOS |-> <<"string", "string", "string">>, HINFO |-> <<"string", "string">>]

LenHIPtoNSAPPTR ==
  [HIP |-> <<"u8", "u8", "u16", "hex", "b64", "names">>,
   KX |-> <<"u16", "name">>, L32 |-> <<"u16", "a">>, L64 |-> <<"u16", "u64">>,
   LOC |-> <<"u8", "u8", "u8", "u8", "u32", "u32", "u32">>,
   LP |-> <<"u16", "name">>, MB |-> <<"name">>, MD |-> <<"name">>,
   MF |-> <<"name">>, MG |-> <<"name">>, MINFO |-> <<"name", "name">>,
   MR |-> <<"name">>, MX |-> <<"u16", "name">>,
   NAPTR |-> <<"u16", "u16", "string", "string", "string", "name">>,
   NID |-> <<"u16", "u64">>, NIMLOC |-> <<"hex">>, NINFO |-> <<"txt">>,
   NS |-> <<"name">>, NSAPPTR |-> <<"name">>]

LenNSEC3PARAMtoTALINK ==
  [NSEC3PARAM |-> <<"u8", "u8", "u16", "u8", "hex">>,
   OPENPGPKEY |-> <<"b64">>, PTR |-> <<"name">>,
   PX |-> <<"u16", "name", "name">>, RFC3597 |-> <<"hex">>,
   RKEY |-> <<"u16", "u8", "u8", "b64">>, RP |-> <<"name", "name">>,
   RRSIG |-> <<"u16", "u8", "u8", "u32", "u32", "u32", "u16", "name", "b64">>,
   RT |-> <<"u16", "name">>, SMIMEA |-> <<"u8", "u8", "u8", "hex">>,
   SOA |-> <<"name", "name", "u32", "u32", "u32", "u32", "u32">>,
   SPF |-> <<"txt">>, SRV |-> <<"u16", "u16", "u16", "name">>,
   SSHFP |-> <<"u8", "u8", "hex">>, TA |-> <<"u16", "u8", "u8", "hex">>,
   TALINK |-> <<"name", "name">>]

LenTKEYtoX25 ==
  [TKEY |-> <<"name", "u32", "u32", "u16", "u16", "u16", "string", "u16",
              "string">>,
   TLSA |-> <<"u8", "u8", "u8", "hex">>,
   TSIG |-> <<"name", "u48", "u16", "u16", "hex", "u16", "u16", "u16", "hex">>,
   TXT |-> <<"txt">>, UID |-> <<"u32">>, UINFO |-> <<"string">>,
   URI |-> <<"u16", "u16", "octet">>, X25 |-> <<"string">>]

(* The len functions written by hand.  The 6 of NSEC3 are five integers.    *)
LenNSEC  == [NSEC |-> <<"name", "nsec">>]
LenNSEC3 == [NSEC3 |-> <<"u8", "u8", "u16", "u8", "hex", "u8", "b32", "nsec">>]
LenOPT   == [OPT |-> <<"opt">>]

LenOwn == LenAtoHINFO @@ LenHIPtoNSAPPTR @@ LenNSEC3PARAMtoTALINK
          @@ LenTKEYtoX25 @@ LenNSEC @@ LenNSEC3 @@ LenOPT

(* Types that embed another one, and its len with it. *)
Counting ==
  LenOwn @@ [CDNSKEY |-> LenOwn.DNSKEY, KEY |-> LenOwn.DNSKEY,
             CDS |-> LenOwn.DS, DLV |-> LenOwn.DS, SIG |-> LenOwn.RRSIG]

-----------------------------------------------------------------------------
(* The options of OPT: how many octets pack makes of one (where it may be   *)
(* any number, some), and the fewest that unpack takes.                     *)
AnyOf(some) == [sizes |-> some, least |-> 0]
Exactly(n) == [sizes |-> {n}, least |-> n]

OptionsNSIDtoCOOKIE ==
  LET Subnet == [sizes |-> {4 + n : n \in 0..16}, least |-> 4]
  IN  [NSID |-> AnyOf(0..2), SUBNET |-> Subnet, SUBNETDRAFT |-> Subnet,
       COOKIE |-> AnyOf({0, 8, 16})]

OptionsULtoN3U ==
  [UL |-> Exactly(4), LLQ |-> Exactly(18), DAU |-> AnyOf(0..2),
   DHU |-> AnyOf(0..2), N3U |-> AnyOf(0..2)]

(* The octets of a keepalive begin with its code and length once more. *)
OptionsEXPIREtoKEEPALIVE ==
  [EXPIRE |-> Exactly(4), LOCALDATA |-> AnyOf(0..2),
   KEEPALIVE |-> [sizes |-> {4, 6}, least |-> 4]]

Options ==
  OptionsNSIDtoCOOKIE @@ OptionsULtoN3U @@ OptionsEXPIREtoKEEPALIVE

(* unpackDataOpt: a code it does not know is read as EDNS0_LOCAL. *)
LeastOctets(code) ==
  IF code \in DOMAIN OptionsNSIDtoCOOKIE \cup DOMAIN OptionsULtoN3U
  THEN Options[code].least ELSE Options.LOCALDATA.least
=============================================================================

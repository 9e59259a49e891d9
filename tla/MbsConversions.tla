--------------------------- MODULE MbsConversions ---------------------------
(***************************************************************************)
(* How the fields of an MBS distribution session info become the members   *)
(* of the MB-SMF service consumer library's session structure (classes     *)
(* MBSPlmnId, TrackingAreaIdentity, MBSNcgi, MBSNcgiTai, ServiceArea,      *)
(* ExternalServiceArea, CivicAddr, GeographicalArea, ServiceInfo,          *)
(* MediaComp, MediaInfo, QoSReq, AllocationRetentionPriority and           *)
(* AssociatedSessId).                                                      *)
(*                                                                         *)
(* A numeral is a sequence of digits 0..15, most significant first; a text *)
(* that is only copied is a value of any kind; an optional field that is   *)
(* absent, and the null pointer it becomes, are None.  A JSON list is a    *)
(* sequence whose null elements are None.                                  *)
(***************************************************************************)
EXTENDS Integers, Sequences, FiniteSets, SequencesExt

CONSTANTS None,      \* an optional value that is absent
          CellBits,  \* the width of an NR cell id, 36 in the code
          Kilo,      \* the factor between the units of a rate, 1000 in the code
          Resolves   \* getaddrinfo: host name -> the address families it has, in order

ASSUME ConversionAssumption ==
    /\ CellBits \in Nat /\ Kilo \in Nat \ {0}
    /\ \A h \in DOMAIN Resolves : ToSet(Resolves[h]) \subseteq {"v4", "v6"}

Present(list) == SelectSeq(list, LAMBDA x : x # None)
Optional(Convert(_), x) == IF x = None THEN None ELSE Convert(x)
Mapped(Convert(_), list) ==
    LET there == Present(list) IN [i \in DOMAIN there |-> Convert(there[i])]

Numeral(base, digits) == FoldLeft(LAMBDA n, d : n * base + d, 0, digits)
Clamp(n, high) == IF n > high THEN high ELSE IF n < 0 THEN 0 ELSE n
IsDecimal(digits) == \A i \in DOMAIN digits : digits[i] < 10

-----------------------------------------------------------------------------
(* Areas.                                                                  *)

\* MBSPlmnId::mcc, mnc: decimal, into 16 bits
mcc(digits) == Clamp(Numeral(10, digits), 2^16 - 1)
mnc(digits) == Clamp(Numeral(10, digits), 2^16 - 1)
PlmnOf(plmn) == [mcc |-> mcc(plmn.mcc), mnc |-> mnc(plmn.mnc)]

\* Mutant: decimal unless there is a letter, as an earlier version had it.
tacGuessed(digits) ==
    Numeral(IF IsDecimal(digits) THEN 10 ELSE 16, digits) % 2^24

\* TrackingAreaIdentity::tac
tac(digits) == Numeral(16, digits) % 2^24

\* TrackingAreaIdentity::nid: the decimal digits of it
TaiNid(digits) == Numeral(10, SelectSeq(digits, LAMBDA d : d < 10))

\* MBSNcgi::nid, nrCellId: hexadecimal
NcgiNid(digits) == Numeral(16, digits)
nrCellId(digits) == Numeral(16, digits)

populateTai(tai) ==
    [plmn |-> PlmnOf(tai.plmn), tac |-> tac(tai.tac), nid |-> Optional(TaiNid, tai.nid)]

populateNcgi(ncgi) ==
    [plmn |-> PlmnOf(ncgi.plmn), cell |-> nrCellId(ncgi.cell) % 2^CellBits,
     nid |-> Optional(NcgiNid, ncgi.nid)]

ncgis(cells) == Mapped(populateNcgi, cells)
populateNcgiTai(n) == [tai |-> populateTai(n.tai), ncgis |-> ncgis(n.cells)]

\* ServiceArea: a list that is absent stays the empty one of the new structure
ncgiTais(area) == IF area.ncgiList = None THEN << >> ELSE Mapped(populateNcgiTai, area.ncgiList)
tais(area) == IF area.taiList = None THEN << >> ELSE Mapped(populateTai, area.taiList)
populateServiceArea(area) == [ncgiTais |-> ncgiTais(area), tais |-> tais(area)]

populateGeographicArea(geo) == [lon |-> geo.point.lon, lat |-> geo.point.lat]

\* CivicAddr: A1 to A6 into an array, the other members one by one
CivicNames == {"country", "PRD", "POD", "STS", "HNO", "LMK", "LOC", "NAM", "PC", "BLD",
               "UNIT", "FLR", "ROOM", "PLC", "PCN", "POBOX", "ADDCODE", "SEAT", "RD",
               "RDSEC", "RDBR", "RDSUBBR", "PRM", "POM", "usageRules", "method",
               "providedBy", "HNS"}
CivicA == <<"A1", "A2", "A3", "A4", "A5", "A6">>
CivicField(address, f) == IF f \in DOMAIN address THEN address[f] ELSE None
populateAddr(address) == [i \in 1..6 |-> CivicField(address, CivicA[i])]
populateCivicAddress(address) ==
    [a |-> populateAddr(address), rest |-> [f \in CivicNames |-> CivicField(address, f)]]

geographicAreas(ext) ==
    IF ext.geoList = None THEN << >> ELSE Mapped(populateGeographicArea, ext.geoList)
civicAddresses(ext) ==
    IF ext.civicList = None THEN << >> ELSE Mapped(populateCivicAddress, ext.civicList)
populateExternalServiceArea(ext) ==
    [geo |-> geographicAreas(ext), civic |-> civicAddresses(ext)]

-----------------------------------------------------------------------------
(* The service information.                                                *)

\* "<value> <unit>", the unit in any case.  (Another unit throws; the pattern
\* of a BitRate, which the generated parser knows, has these.)
Units == <<"bps", "kbps", "mbps", "gbps", "tbps">>
UnitNo(unit) == CHOOSE i \in DOMAIN Units : Units[i] = unit
Bits(rate) == rate.value * Kilo^(UnitNo(rate.unit) - 1)

\* MediaInfo::bandwidth, QoSReq::bitrate, ServiceInfo::ambr
bandwidth(rate) == Optional(Bits, rate)
bitrate(rate) == Optional(Bits, rate)
ambr(rate) == Optional(Bits, rate)

MediaTypes == {"AUDIO", "VIDEO", "DATA", "APPLICATION", "CONTROL", "TEXT", "MESSAGE", "OTHER"}
lookup(type) == IF type \in MediaTypes THEN type ELSE "NULL"

\* The loop ends after the third codec it has copied.
codecs(list) == LET there == IF list = None THEN << >> ELSE Present(list)
                IN  SubSeq(there, 1, Clamp(Len(there), 3))

populateMediaInfo(info) ==
    [type |-> lookup(info.type), max |-> bandwidth(info.max), min |-> bandwidth(info.min),
     codecs |-> codecs(info.codecs)]

Lookup(value, known) == IF value \in known THEN value ELSE "NULL"
preemptionCapabilityLookup(c) == Lookup(c, {"NOT_PREEMPT", "MAY_PREEMPT"})
preemptionVulnerabilityLookup(v) == Lookup(v, {"NOT_PREEMPTABLE", "PREEMPTABLE"})
populateArp(arp) == [level |-> arp.level % 2^8,
                     capability |-> preemptionCapabilityLookup(arp.capability),
                     vulnerability |-> preemptionVulnerabilityLookup(arp.vulnerability)]

averagingWindow(window) == Optional(LAMBDA w : Clamp(w, 2^16 - 1), window)
populateQoSReq(qos) ==
    [fiveQi |-> qos.fiveQi, guaranteed |-> bitrate(qos.guaranteed), max |-> bitrate(qos.max),
     window |-> averagingWindow(qos.window), arp |-> Optional(populateArp, qos.arp)]

\* A priority of 0 stands for none.
Priority(priority) == IF priority = None THEN 0 ELSE priority % 2^8

flowDescriptions(list) == IF list = None THEN None ELSE Present(list)
populateMediaComp(comp) ==
    [id |-> comp.id, flows |-> flowDescriptions(comp.flows), priority |-> Priority(comp.priority),
     media |-> Optional(populateMediaInfo, comp.media), qosRef |-> comp.qosRef,
     qos |-> Optional(populateQoSReq, comp.qos)]

\* A hash from the id of a component, in the order of the JSON keys: of two
\* components with one id the later one stays.
populateMediaComps(comps) ==
    LET there == Present(comps)
        last(id) == CHOOSE i \in DOMAIN there :
                        there[i].id = id /\ \A j \in i + 1 .. Len(there) : there[j].id # id
    IN  [id \in {there[i].id : i \in DOMAIN there} |-> populateMediaComp(there[last(id)])]

populateServiceInfo(info) ==
    [comps |-> populateMediaComps(info.comps), afAppId |-> info.afAppId,
     ambr |-> ambr(info.ambr), priority |-> Priority(info.priority)]

-----------------------------------------------------------------------------
(* Addresses.                                                              *)

\* Both names resolve (resolve_src_dest_addr) and both have an address of the
\* family (get_src_dest_of_same_addr_family).  A host none of whose families is
\* known does not resolve.
Resolved(host) == Resolves[host] # << >>
resolve_src_dest_addr(src, dest) == Resolved(src) /\ Resolved(dest)
get_src_dest_of_same_addr_family(family, src, dest) ==
    family \in ToSet(Resolves[src]) /\ family \in ToSet(Resolves[dest])

\* The family an SSM is used with, IPv4 first: None when one side is missing.
FamilyOf(ssm) == IF ssm.src.v4 # None /\ ssm.dest.v4 # None THEN "v4"
                 ELSE IF ssm.src.v6 # None /\ ssm.dest.v6 # None THEN "v6"
                 ELSE None

Usable(ssm) == LET f == FamilyOf(ssm)
               IN  /\ f # None
                   /\ resolve_src_dest_addr(ssm.src[f], ssm.dest[f])
                   /\ get_src_dest_of_same_addr_family(f, ssm.src[f], ssm.dest[f])

\* AssociatedSessId::populateSsm: what does not resolve stays zeroed
Zeroed == [family |-> None]
populateSsm(ssm) ==
    LET f == FamilyOf(ssm)
    IN  IF Usable(ssm) THEN [family |-> f, src |-> ssm.src[f], dest |-> ssm.dest[f]] ELSE Zeroed
populateAssociatedSessionId(id) == [ssm |-> populateSsm(id)]

\* MBSMFMBSSession::setFsaId: one id, hexadecimal (the 32 bits of the member are
\* more than its six digits need)
FsaIdOf(digits) == <<Numeral(16, digits)>>
=============================================================================

------------------------------ MODULE Detection ------------------------------
(***************************************************************************)
(* What the server concludes from the headers of a request: the risk of    *)
(* the request (DeviceDetectionService.analyzeRequestBehavior) and the     *)
(* fingerprint that names the device (createPrimaryFingerprint).           *)
(*                                                                         *)
(* A request is the record of what the code tells apart in its headers.    *)
(* A user agent is the set of the substrings the code looks for, its       *)
(* length class, the number of UUIDs in it and the rest of its text; an    *)
(* absent header is "".  Scores are counted in tenths and weights in       *)
(* hundredths, so that a total is in thousandths.                          *)
(***************************************************************************)
EXTENDS Naturals, Sequences, FiniteSets

Keywords == {"bot", "crawler", "spider", "scraper", "automation", "headless",
             "phantom", "selenium", "puppeteer", "curl", "wget", "python",
             "java", "perl"}

BrowserPatterns == {"mozilla", "chrome", "safari", "firefox", "edge", "opera",
                    "msie", "trident"}
-----------------------------------------------------------------------------
(* User agent. *)

Missing(ua) == ua.length = "none"

(* ArzdigitalApp, or Name/1.2.3 (iOS 17.2;ID). *)
isMobileAppUserAgent(ua) == "app" \in ua.has

isDefinitelyBrowser(ua) == ua.has \cap BrowserPatterns # {}

hasSuspiciousKeywords(ua) == ua.has \cap Keywords # {}

(* The automated patterns are the keywords without "automation". *)
isAutomatedUserAgent(ua) == ua.has \cap (Keywords \ {"automation"}) # {}

hasRandomPatterns(ua) == ua.uuids > 2

(* The sum of the points of the conditions that hold. *)
Points(cond, points) == IF cond THEN points ELSE 0

UserAgentPenalty(ua) ==
    Points(hasSuspiciousKeywords(ua), 3) + Points(hasRandomPatterns(ua), 2)
      + Points(isAutomatedUserAgent(ua), 4)
      + Points(ua.length \in {"below10", "below20"}, 2)
      + Points(ua.length \in {"above200", "above500"}, 1)

(* consistencyScore < 0.5.  A penalty of 5 counts: in binary floating point *)
(* 1 - 0.3 - 0.2 is 0.49999999999999994.                                    *)
Inconsistent(ua) == Missing(ua) \/ UserAgentPenalty(ua) >= 5

RiskPoints(ua) ==
    Points(Missing(ua), 3) + Points(ua.length \in {"none", "below10"}, 2)
      + Points(ua.length = "above500", 1)
      + Points(hasSuspiciousKeywords(ua), 4) + Points(hasRandomPatterns(ua), 3)
      + Points(isAutomatedUserAgent(ua), 5) + Points(Inconsistent(ua), 3)

calculateUserAgentRisk(ua) == IF RiskPoints(ua) > 10 THEN 10 ELSE RiskPoints(ua)
-----------------------------------------------------------------------------
(* Headers. *)

hasMobileHeaders(c) == c.deviceId # "" \/ c.deviceModel # ""

(* sec-ch-ua alone counts as well as sec-ch-ua-platform. *)
hasBrowserHeaders(c) == c.platform # "" \/ c.clientHints = "yes"

hasSuspiciousHeaderCombination(c) ==
    \/ isMobileAppUserAgent(c.ua) /\ hasBrowserHeaders(c)
    \/ isDefinitelyBrowser(c.ua) /\ hasMobileHeaders(c)

Inconsistencies(c) ==
    {x \in {"no device headers", "model format", "combination"} :
        CASE x = "no device headers" ->
                isMobileAppUserAgent(c.ua) /\ ~hasMobileHeaders(c)
          [] x = "model format" -> c.deviceModel # "" /\ c.modelForm # "valid"
          [] x = "combination" -> hasSuspiciousHeaderCombination(c)}

HeaderRisk(c) == 2 * Cardinality(Inconsistencies(c))

(* Timing, geography and network are constants the code returns until the   *)
(* services it mentions exist.                                              *)
TimingRisk == 1
GeographicRisk == 3
NetworkRisk == 1

calculateSecurityScore(c) ==
    25 * TimingRisk + 25 * calculateUserAgentRisk(c.ua) + 20 * HeaderRisk(c)
      + 15 * GeographicRisk + 15 * NetworkRisk

getRiskLevel(score) ==
    CASE score < 300 -> "low"
      [] score \in 300 .. 599 -> "medium"
      [] score \in 600 .. 799 -> "high"
      [] OTHER -> "critical"

(* Its patterns and recommendations are logged and decide nothing. *)
analyzeRequestBehavior(c) ==
    LET score == calculateSecurityScore(c)
    IN  [securityScore |-> score, riskLevel |-> getRiskLevel(score)]

(* applySecurityMeasures refuses the request; the other levels only log. *)
RefusedForRisk(c) ==
    LET analysis == analyzeRequestBehavior(c)
    IN  analysis.riskLevel = "critical" \/ analysis.securityScore > 900
-----------------------------------------------------------------------------
(* The name of the first rule that a set of substrings meets. *)
FirstMatch(rules, has) ==
    LET hits == {i \in DOMAIN rules : /\ rules[i].any \cap has # {}
                                      /\ rules[i].none \cap has = {}}
    IN  IF hits = {} THEN "Unknown"
        ELSE rules[CHOOSE i \in hits : \A j \in hits : i <= j].name

(* The branch for app user agents never matches: it is tried on the         *)
(* lower-cased text, its patterns are not.                                  *)
OSRules ==
    << [any |-> {"windows nt"}, none |-> {}, name |-> "Windows"],
       [any |-> {"mac os x", "macos"}, none |-> {}, name |-> "macOS"],
       [any |-> {"ipad"}, none |-> {}, name |-> "iPadOS"],
       [any |-> {"iphone", "ios"}, none |-> {}, name |-> "iOS"],
       [any |-> {"android"}, none |-> {}, name |-> "Android"],
       [any |-> {"linux"}, none |-> {}, name |-> "Linux"] >>

extractOSInfo(ua) == FirstMatch(OSRules, ua.has)

BrowserRules ==
    << [any |-> {"app"}, none |-> {}, name |-> "Mobile App"],
       [any |-> {"chrome"}, none |-> {"edg"}, name |-> "Chrome"],
       [any |-> {"edg"}, none |-> {}, name |-> "Edge"],
       [any |-> {"safari"}, none |-> {"chrome"}, name |-> "Safari"],
       [any |-> {"firefox"}, none |-> {}, name |-> "Firefox"],
       [any |-> {"opera"}, none |-> {}, name |-> "Opera"],
       [any |-> {"msie", "trident"}, none |-> {}, name |-> "Internet Explorer"] >>

extractBrowserInfo(ua) == FirstMatch(BrowserRules, ua.has)

(* The third pattern of the code, meant for sequences, matches every UUID   *)
(* written in lower case.                                                   *)
isSuspiciousUUID(form) == form \in {"zeros", "ones", "lower"}

(* parsed.device.model is never set, so that only the OS is compared. *)
isUUIDConsistent(c, form) ==
    /\ c.systemVersion # "" => c.systemOs = extractOSInfo(c.ua)
    /\ ~isSuspiciousUUID(form)

UUIDForms == {"upper", "lower", "zeros", "ones"}

NotEmpty(x) == x # ""

(* parsed.device.vendor and .model are never set. *)
HardwareIdentifiers(c) ==
    SelectSeq(<<c.deviceModel, c.platform, c.systemVersion>>, NotEmpty)

Composite(c) ==
    << c.ua.text, c.screen, c.timezone, c.language, c.platform, c.deviceModel,
       c.systemVersion, extractOSInfo(c.ua), extractBrowserInfo(c.ua) >>

(* A hash is the sequence of what it is computed from. *)
createPrimaryFingerprint(c) ==
    CASE Len(HardwareIdentifiers(c)) >= 2 ->
            <<"hardware">> \o HardwareIdentifiers(c)
      [] /\ Len(HardwareIdentifiers(c)) < 2
         /\ c.idForm \in UUIDForms /\ isUUIDConsistent(c, c.idForm) ->
            <<"uuid", c.deviceId>>
      [] /\ Len(HardwareIdentifiers(c)) < 2
         /\ ~(c.idForm \in UUIDForms /\ isUUIDConsistent(c, c.idForm))
         /\ c.ua.idForm \in UUIDForms /\ isUUIDConsistent(c, c.ua.idForm) ->
            <<"uuid", c.ua.id>>
      [] OTHER -> <<"composite">> \o Composite(c)
=============================================================================

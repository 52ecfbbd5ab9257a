\* The entries' programs on small calendars, versions, alphabets and bases.
\* Each of them ends.
CONSTANTS
    SecondsPerMinute = 2
    MinutesPerHour = 2
    HoursPerDay = 2
    WeekDays = 2
    MonthDays <- MCMonthDays
    LeapMonth = 2
    LeapEvery = 4
    MaxComponent = 2
    WordLen = 4
    Base = 3
    ByteBase = 4
    ChecksumLen = 1
    Checksum <- MCChecksum
    CodeLen = 6
    CronRuns <- MCCronRuns
    SemverRuns <- MCSemverRuns
    Urls <- MCUrls
    Codes <- MCCodes
    Payloads <- MCPayloads
SPECIFICATION Spec
INVARIANTS CronIsNext SemverMeansIntervals UrlRoundTrips Base58Inverts
CHECK_DEADLOCK FALSE

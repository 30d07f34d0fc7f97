SPECIFICATION Io_FairSpec
CONSTANTS
    Settings <- ShortSettings
PROPERTIES OneReportPerPress DurationObeyed

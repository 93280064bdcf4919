\* one token (GatewayStartup is checked with two), the two services of the
\* gateway, one request and one download, into the compose file: what is new here
\* is the order across components
SPECIFICATION FairSpec
CONSTANTS
    Tokens = {t1}
    NoToken = NoToken
    Services = {backend, download}
    BackendService = backend
    DownloadService = download
    Requests = {r1}
    Downloads = {d1}
    Paths = {compose}
    ComposePath = compose
    Size = 1
    Old = Old
    Hole = Hole
INVARIANTS
    ForwardedWithNewestToken
    MainIsFirst
    OfferedOnlyAfterRegistration
    HandlersBeforeOffers
PROPERTIES
    OtaPromiseUntilDownloaded
    ServesAfterStartup
    StartReached
\* an exception in any thread ends the process
CHECK_DEADLOCK FALSE

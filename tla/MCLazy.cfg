SPECIFICATION LazySpec
CONSTANTS
    None = None
    HttpAiohttpProbe = HttpAiohttpProbe
    make_aiohttp_endpoint = make_aiohttp_endpoint
    RedisProbe = RedisProbe
    Threads = {t1, t2}
    Names <- MCNames
    PackageOf <- MCPackageOf
    MaxImports = 3
INVARIANTS OneObjectPerName StarImportBringsTheUsable
CHECK_DEADLOCK FALSE

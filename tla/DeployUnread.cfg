SPECIFICATION Spec
CONSTANTS
    r1 = r1
    r2 = r2
    w1 = w1
    w2 = w2
    c1 = c1
    c2 = c2
    Runners <- MCRunners
    Migrations <- MCMigrations
    Workers <- MCWorkers
    Shards = 2
    Cameras <- MCCameras
    ShardOf <- MCShardOf
    MaxFaults = 2
    None = none
PROPERTY
    AllRead

\* Sessions
CONSTANTS Users = {u}
          Devices = {d1, d2}
          Owner <- MCOwner
          Reqs = {r1, r2}
          MaxTokens = 3
          MaxStarts = 3
          Nil = Nil
\* DeviceKeys
          KeyDevices = {d1}
          OneTimeKeys = {k1, k2}
          FallbackKeys = {f1, f2}
          SigningKeys = {s1}
          Claims = {r1, r2}
          KeyLimit = 2
          MaxCount = 5
          Nothing = Nothing
\* Push
          A = A  B = B  DA = DA  DB = DB
          PushUsers = {A, B}
          PushDevices = {DA, DB}
          DeviceUser <- MCDeviceUser
          Pushkeys = {pk}
          Apps = {app1, app2}
          CustomRules = {c1, c2}
          MaxRules = 3
          PageLimit = 2
          PerUser = 4
          MaxRow = 5
          Writers = {r1, r2}
          Absent = Absent
\* UserData
          Requests = {r1, r2}
          Tags = {t1}
          BackupSessions = {s}
          Rooms = {q1, q2}
          Names = {n1, n2}
          MaxPosition = 4
          MaxVersions = 2
          None = None
SPECIFICATION AccountsSpec
CHECK_DEADLOCK FALSE
INVARIANTS
    HandedOnce
    SessionsSound
    UserDataSound

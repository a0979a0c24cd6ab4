SPECIFICATION CastSpec
CONSTANTS
  admin = admin  jane = jane  clerk = clerk  lead = lead  plantA = plantA  plantB = plantB
  User = {admin, jane}
  Role = {clerk, lead}
  Factory = {plantA, plantB}
  Permission <- Told
  Url = {"pdf1", "pdf2"}
  Host = {"vls-a", "vls-b"}
  Request = {"reset1", "reset2", "tree", "list", "valves", "menus", "clear", "signIn", "task", "remove", "upload1", "upload2"}
  Ask <- Asks
  HostOf <- Hosts
  File = {"report"}
  MaxClock = 1
  MaxMenu = 19
  MaxTask = 4
  MaxEdits = 2
  RoleForms <- Forms
  MenuForms <- Disabled
  FirstUsers <- Users
  FirstRoles <- Roles
  FirstMenus <- Menus
  FirstFactories <- Plants
  FirstTasks <- Tasks
  FirstPdfs <- Pdfs
  Absent = Absent
  None = None
CHECK_DEADLOCK FALSE
INVARIANTS AdminTypeOK BuiltInMenusBack ListWithinScope GrantAllSeesAll UploadStands
PROPERTIES OnlyRegrantedPass PdfKeepsAddress ClearedInTheEnd

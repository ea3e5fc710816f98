------------------------------ MODULE RustSse -------------------------------

(***************************************************************************)
(* How the Rust half of the generated Flutter glue reads and writes the    *)
(* bytes of the "SSE" codec (frb_generated.rs, impl SseDecode and impl     *)
(* SseEncode): for every type, the parts in the order they are taken from  *)
(* the buffer or put into it.  The definitions follow the order of the     *)
(* file and are joined at the end: one table for reading, one for writing. *)
(***************************************************************************)
EXTENDS GlueShapes

(***************************************************************************)
(* Reading: impl SseDecode.                                                *)
(***************************************************************************)
RustReadsError ==
       "anyhow::Error" :> Wraps("String")
    @@ "CancelToken" :> Wraps("RustOpaqueNom<CancelToken>")
    @@ "ExtensionClient" :> Wraps("RustOpaqueNom<ExtensionClient>")
    @@ "ManagerClient" :> Wraps("RustOpaqueNom<ManagerClient>")
    @@ "ProxyAdapter" :> Wraps("RustOpaqueNom<ProxyAdapter>")
    @@ "ProxyExtension" :> Wraps("RustOpaqueNom<ProxyExtension>")
    @@ "DateTime" :> Fields(<< <<"microseconds", "i64">> >>)
    @@ "DartOpaque" :> Wraps("usize")
    @@ "HashMap<String, String>" :> Wraps("Vec<(String, String)>")
    @@ "HashMap<String, Vec<String>>" :> Wraps("Vec<(String, Vec<String>)>")
    @@ "HashMap<String, Setting>" :> Wraps("Vec<(String, Setting)>")
    @@ "HashMap<String, SlotValue>" :> Wraps("Vec<(String, SlotValue)>")
    @@ "RustOpaqueNom<CancelToken>" :> Wraps("usize")
    @@ "RustOpaqueNom<ExtensionClient>" :> Wraps("usize")
    @@ "RustOpaqueNom<ManagerClient>" :> Wraps("usize")

RustReadsRustOpaqueNomProxyAdapter ==
       "RustOpaqueNom<ProxyAdapter>" :> Wraps("usize")
    @@ "RustOpaqueNom<ProxyExtension>" :> Wraps("usize")
    @@ "HashSet<ExtensionType>" :> Wraps("Vec<ExtensionType>")
    @@ "HashSet<MediaType>" :> Wraps("Vec<MediaType>")
    @@ "HashSet<SourceOpenType>" :> Wraps("Vec<SourceOpenType>")
    @@ "HashSet<SourceType>" :> Wraps("Vec<SourceType>")
    @@ "String" :> Wraps("Vec<u8>")

(* Mutant: Rust was generated again after two fields changed places, Dart was not. *)
MutantRustReadsAccount ==
       "Account" :> Fields(<< <<"domain", "String">>, <<"cover", "Option<String>">>,
          <<"userName", "Option<String>">>, <<"auth", "AuthData">>,
          <<"creds", "Option<AuthCreds>">> >>)

RustReadsAccount ==
       "Account" :> Fields(<< <<"domain", "String">>, <<"userName", "Option<String>">>,
          <<"cover", "Option<String>">>, <<"auth", "AuthData">>,
          <<"creds", "Option<AuthCreds>">> >>)

RustReadsAction ==
       "Action" :> OneOf(<<
        << "OpenBrowser", << <<"url", "String">> >> >>,
        << "Popup", << <<"title", "String">>, <<"content", "Box<CustomUI>">>,
            <<"actions", "Vec<PopupAction>">> >> >>,
        << "Nav", << <<"title", "String">>, <<"content", "Box<CustomUI>">> >> >>,
        << "PopView", << >> >>,
        << "NavEntry", << <<"entry", "Box<EntryDetailed>">> >> >>,
        << "ShowToast", << <<"message", "String">>, <<"kind", "ToastKind">> >> >> >>)
    @@ "Alignment" :> Units(<< "Center", "TopLeft", "TopCenter", "TopRight", "CenterLeft", "CenterRight",
          "BottomLeft", "BottomCenter", "BottomRight" >>)
    @@ "AuthCreds" :> OneOf(<<
        << "Cookies", << <<"cookies", "HashMap<String, Vec<String>>">> >> >>,
        << "ApiKey", << <<"key", "String">> >> >>,
        << "UserPass", << <<"username", "String">>, <<"password", "String">> >> >>,
        << "OAuth", << <<"accessToken", "String">>, <<"refreshToken", "Option<String>">>,
            <<"expiresAt", "Option<u32>">> >> >> >>)

RustReadsAuthData ==
       "AuthData" :> OneOf(<<
        << "Cookie", << <<"loginpage", "String">>, <<"logonpage", "String">> >> >>,
        << "ApiKey", << >> >>,
        << "UserPass", << >> >>,
        << "OAuth", << <<"authorizationUrl", "String">>, <<"tokenUrl", "Option<String>">>,
            <<"clientId", "String">>, <<"clientSecret", "String">>,
            <<"scope", "Option<String>">> >> >> >>)
    @@ "bool" :> Plain("u8") @@ "Box<Action>" :> Wraps("Action")
    @@ "Box<CustomUI>" :> Wraps("CustomUI")
    @@ "Box<EntryDetailed>" :> Wraps("EntryDetailed")
    @@ "Box<Interaction>" :> Wraps("Interaction")
    @@ "ButtonType" :> Units(<< "Filled", "Ghost", "Elevated" >>)
    @@ "Chapter" :> Fields(<< <<"title", "String">>, <<"start", "f64">>, <<"end", "Option<f64>">>,
          <<"kind", "Option<ChapterKind>">> >>)
    @@ "ChapterKind" :> Units(<< "Intro", "Outro", "Recap", "Filler", "Preview" >>)

RustReadsColorToken ==
       "ColorToken" :> Units(<< "Primary", "OnPrimary", "PrimaryContainer", "OnPrimaryContainer", "Secondary",
          "OnSecondary", "Surface", "OnSurface", "SurfaceContainer",
          "SurfaceContainerHighest", "Error", "OnError", "Disabled", "Shadow" >>)
    @@ "ContainerType" :> Units(<< "Ghost", "Filled", "Outlined" >>)
    @@ "CrossAxisAlignment" :> Units(<< "Start", "Center", "End", "Stretch", "Baseline" >>)

RustReadsCustomUIText == <<
    << "Text", << <<"text", "String">>, <<"style", "Option<TextStyle>">> >> >>,
    << "Image", << <<"image", "Link">>, <<"width", "Option<i32>">>,
        <<"height", "Option<i32>">> >> >>,
    << "Link", << <<"link", "String">>, <<"label", "Option<String>">> >> >>,
    << "Timestamp", << <<"timestamp", "DateTime">>, <<"display", "TimestampType">> >> >>,
    << "EntryCard", << <<"entry", "Entry">> >> >>,
    << "Card", << <<"image", "Link">>, <<"top", "Box<CustomUI>">>,
        <<"bottom", "Box<CustomUI>">>, <<"onClick", "Option<Box<Interaction>>">> >> >>,
    << "Spinner", << >> >>,
    << "Feed", << <<"handler", "String">>, <<"data", "String">> >> >>,
    << "Button", << <<"label", "String">>, <<"onClick", "Option<Box<Interaction>>">>,
        <<"buttonType", "Option<ButtonType>">>, <<"color", "Option<ColorToken>">> >> >>,
    << "InlineSetting", << <<"settingId", "String">>, <<"settingKind", "SettingKind">>,
        <<"onCommit", "Option<Box<Interaction>>">> >> >>,
    << "Slot", << <<"handler", "String">>, <<"child", "Box<CustomUI>">>,
        <<"staticData", "String">>, <<"subscriptions", "Vec<Subscription>">> >> >>,
    << "Column", << <<"children", "Vec<CustomUI>">>,
        <<"mainAxisAlignment", "Option<MainAxisAlignment>">>,
        <<"crossAxisAlignment", "Option<CrossAxisAlignment>">>,
        <<"mainAxisSize", "Option<MainAxisSize>">>, <<"scrollable", "bool">> >> >> >>

RustReadsCustomUIRow == <<
    << "Row", << <<"children", "Vec<CustomUI>">>,
        <<"mainAxisAlignment", "Option<MainAxisAlignment>">>,
        <<"crossAxisAlignment", "Option<CrossAxisAlignment>">>,
        <<"mainAxisSize", "Option<MainAxisSize>">>, <<"scrollable", "bool">> >> >>,
    << "TextInput", << <<"onChange", "Option<Box<Interaction>>">>,
        <<"debounceMs", "Option<i32>">>, <<"initial", "Option<String>">>,
        <<"onCommit", "Option<Box<Interaction>>">> >> >>,
    << "Padding", << <<"padding", "EdgeInsets">>, <<"child", "Box<CustomUI>">> >> >>,
    << "Container", << <<"child", "Box<CustomUI>">>,
        <<"containerType", "Option<ContainerType>">>, <<"color", "Option<ColorToken>">>,
        <<"borderColor", "Option<ColorToken>">>, <<"padding", "Option<EdgeInsets>">>,
        <<"width", "Option<f32>">>, <<"height", "Option<f32>">>,
        <<"alignment", "Option<Alignment>">>, <<"emphasized", "Option<bool>">> >> >>,
    << "Clickable", << <<"child", "Box<CustomUI>">>,
        <<"onClick", "Option<Box<Interaction>>">>,
        <<"onLongClick", "Option<Box<Interaction>>">> >> >>,
    << "Expanded", << <<"child", "Box<CustomUI>">>, <<"flex", "i32">> >> >>,
    << "SizedBox", << <<"width", "Option<f32>">>, <<"height", "Option<f32>">>,
        <<"child", "Option<Box<CustomUI>>">> >> >>,
    << "Spacer", << <<"flex", "i32">> >> >>,
    << "Wrap", << <<"children", "Vec<CustomUI>">>, <<"spacing", "Option<f32>">>,
        <<"runSpacing", "Option<f32>">>, <<"alignment", "Option<WrapAlignment>">> >> >> >>

RustReadsCustomUICenter == <<
    << "Center", << <<"child", "Box<CustomUI>">> >> >>,
    << "Align", << <<"alignment", "Alignment">>, <<"child", "Box<CustomUI>">> >> >>,
    << "Stack", << <<"children", "Vec<CustomUI>">>, <<"alignment", "Option<Alignment>">>,
        <<"fit", "Option<StackFit>">> >> >>,
    << "Divider", << >> >>,
    << "ListTile", << <<"leading", "Option<Box<CustomUI>>">>,
        <<"title", "Option<Box<CustomUI>>">>, <<"subtitle", "Option<Box<CustomUI>>">>,
        <<"trailing", "Option<Box<CustomUI>>">>, <<"onClick", "Option<Box<Interaction>>">>,
        <<"onLongClick", "Option<Box<Interaction>>">> >> >>,
    << "Badge", << <<"child", "Box<CustomUI>">>, <<"color", "Option<ColorToken>">> >> >>,
    << "FoldableText", << <<"text", "String">>, <<"maxLines", "i32">>,
        <<"style", "Option<TextStyle>">>, <<"animate", "bool">> >> >>,
    << "StarDisplay", << <<"fill", "f32">>, <<"maxStars", "i32">> >> >>,
    << "Dropdown", << <<"items", "Vec<DropdownItem>">>,
        <<"initialValue", "Option<String>">>,
        <<"onChange", "Option<Box<Interaction>>">> >> >> >>

RustReadsCustomUI == "CustomUI" :> OneOf(RustReadsCustomUIText \o RustReadsCustomUIRow \o RustReadsCustomUICenter)

RustReadsDropdownItem ==
       "DropdownItem" :> Fields(<< <<"value", "String">>, <<"label", "String">> >>)
    @@ "DropdownOption" :> Fields(<< <<"label", "String">>, <<"value", "String">> >>)
    @@ "EdgeInsets" :> Fields(<< <<"left", "Option<f32>">>, <<"top", "Option<f32>">>, <<"right", "Option<f32>">>,
          <<"bottom", "Option<f32>">> >>)
    @@ "Entry" :> Fields(<< <<"id", "EntryId">>, <<"url", "String">>, <<"title", "String">>,
          <<"mediaType", "MediaType">>, <<"cover", "Option<Link>">>,
          <<"author", "Option<Vec<String>>">>, <<"rating", "Option<f32>">>,
          <<"views", "Option<f32>">>, <<"length", "Option<i32>">> >>)
    @@ "EntryActivity" :> OneOf(<<
        << "EpisodeActivity", << <<"progress", "i32">> >> >> >>)
    @@ "EntryDetailed" :> Fields(<< <<"id", "EntryId">>, <<"url", "String">>, <<"titles", "Vec<String>">>,
          <<"author", "Option<Vec<String>>">>, <<"ui", "Option<CustomUI>">>,
          <<"meta", "Option<HashMap<String, String>>">>, <<"mediaType", "MediaType">>,
          <<"status", "ReleaseStatus">>, <<"description", "String">>,
          <<"language", "String">>, <<"cover", "Option<Link>">>,
          <<"poster", "Option<Link>">>, <<"episodes", "Vec<Episode>">>,
          <<"genres", "Option<Vec<String>>">>, <<"rating", "Option<f32>">>,
          <<"views", "Option<f32>">>, <<"length", "Option<i32>">> >>)
    @@ "EntryDetailedResult" :> Fields(<< <<"entry", "EntryDetailed">>,
          <<"settings", "HashMap<String, Setting>">> >>)

RustReadsEntryId ==
       "EntryId" :> Fields(<< <<"uid", "String">>, <<"iddata", "Option<String>">> >>)
    @@ "EntryList" :> Fields(<< <<"hasnext", "Option<bool>">>, <<"length", "Option<i32>">>,
          <<"content", "Vec<Entry>">> >>)
    @@ "Episode" :> Fields(<< <<"id", "EpisodeId">>, <<"name", "String">>, <<"description", "Option<String>">>,
          <<"url", "String">>, <<"cover", "Option<Link>">>,
          <<"timestamp", "Option<DateTime>">>, <<"announced", "Option<bool>">> >>)
    @@ "EpisodeId" :> Fields(<< <<"uid", "String">>, <<"iddata", "Option<String>">> >>)
    @@ "EventData" :> OneOf(<<
        << "LoadSlot", << <<"handler", "String">>, <<"staticData", "String">>,
            <<"values", "HashMap<String, SlotValue>">> >> >>,
        << "LoadPage", << <<"handler", "String">>, <<"data", "String">>,
            <<"page", "i32">> >> >>,
        << "Invoke", << <<"handler", "String">>, <<"payload", "String">> >> >> >>)
    @@ "EventResult" :> OneOf(<<
        << "SlotContent", << <<"customui", "CustomUI">> >> >>,
        << "FeedPage", << <<"items", "Vec<CustomUI>">>, <<"hasMore", "bool">> >> >> >>)

RustReadsExtensionData ==
       "ExtensionData" :> Fields(<< <<"id", "String">>, <<"name", "String">>, <<"url", "String">>,
          <<"icon", "String">>, <<"desc", "Option<String>">>, <<"author", "Vec<String>">>,
          <<"tags", "Vec<String>">>, <<"lang", "Vec<String>">>, <<"nsfw", "bool">>,
          <<"mediaType", "HashSet<MediaType>">>,
          <<"extensionType", "HashSet<ExtensionType>">>, <<"repo", "Option<String>">>,
          <<"version", "String">>, <<"license", "String">>, <<"compatible", "bool">>,
          <<"permissions", "Option<Vec<Permission>>">> >>)
    @@ "ExtensionKind" :> Units(<< "EntryProvider", "SourceProcessor", "EntryProcessor",
          "UrlHandler" >>)
    @@ "ExtensionManagerData" :> Fields(<< <<"name", "String">>, <<"icon", "Option<String>">>, <<"repo", "Option<String>">>,
          <<"apiVersion", "u32">> >>)
    @@ "ExtensionRepo" :> Fields(<< <<"remoteId", "String">>, <<"name", "String">>, <<"description", "String">>,
          <<"url", "String">> >>)
    @@ "ExtensionType" :> OneOf(<<
        << "EntryProvider", << <<"hasSearch", "bool">> >> >>,
        << "SourceProcessor", << <<"sourcetypes", "HashSet<SourceType>">>,
            <<"opentype", "HashSet<SourceOpenType>">> >> >>,
        << "EntryProcessor", << <<"triggerMapEntry", "bool">>,
            <<"triggerOnEntryActivity", "bool">> >> >>,
        << "URLHandler", << <<"urlPatterns", "Vec<String>">> >> >> >>)
    @@ "f32" :> Plain("f32") @@ "f64" :> Plain("f64")

RustReadsI32 ==
       "i32" :> Plain("i32") @@ "i64" :> Plain("64 bits")
    @@ "ImageListAudio" :> Fields(<< <<"link", "Link">>, <<"from", "i32">>, <<"to", "i32">> >>)
    @@ "Interaction" :> OneOf(<<
        << "Invoke", << <<"handler", "String">>, <<"payload", "String">> >> >>,
        << "WriteKey", << <<"key", "String">>, <<"value", "String">> >> >> >>)
    @@ "isize" :> Plain("64 bits")
    @@ "Link" :> Fields(<< <<"url", "String">>, <<"header", "Option<HashMap<String, String>>">> >>)
    @@ "Vec<ProxyExtension>" :> ListOf("ProxyExtension")
    @@ "Vec<String>" :> ListOf("String") @@ "Vec<Account>" :> ListOf("Account")
    @@ "Vec<Chapter>" :> ListOf("Chapter") @@ "Vec<CustomUI>" :> ListOf("CustomUI")

RustReadsVecDropdownItem ==
       "Vec<DropdownItem>" :> ListOf("DropdownItem")
    @@ "Vec<DropdownOption>" :> ListOf("DropdownOption")
    @@ "Vec<Entry>" :> ListOf("Entry") @@ "Vec<Episode>" :> ListOf("Episode")
    @@ "Vec<ExtensionKind>" :> ListOf("ExtensionKind")
    @@ "Vec<ExtensionType>" :> ListOf("ExtensionType")
    @@ "Vec<ImageListAudio>" :> ListOf("ImageListAudio")
    @@ "Vec<Link>" :> ListOf("Link") @@ "Vec<MediaType>" :> ListOf("MediaType")
    @@ "Vec<MixedContent>" :> ListOf("MixedContent")

RustReadsVecParagraph ==
       "Vec<Paragraph>" :> ListOf("Paragraph") @@ "Vec<Permission>" :> ListOf("Permission")
    @@ "Vec<PopupAction>" :> ListOf("PopupAction") @@ "Vec<u8>" :> ListOf("u8")
    @@ "Vec<(String, Vec<String>)>" :> ListOf("(String, Vec<String>)")
    @@ "Vec<(String, Setting)>" :> ListOf("(String, Setting)")
    @@ "Vec<(String, SlotValue)>" :> ListOf("(String, SlotValue)")
    @@ "Vec<(String, String)>" :> ListOf("(String, String)")
    @@ "Vec<RemoteExtension>" :> ListOf("RemoteExtension")
    @@ "Vec<Row>" :> ListOf("Row")
    @@ "Vec<SourceOpenType>" :> ListOf("SourceOpenType")

RustReadsVecSourceType ==
       "Vec<SourceType>" :> ListOf("SourceType")
    @@ "Vec<StreamSource>" :> ListOf("StreamSource")
    @@ "Vec<Subscription>" :> ListOf("Subscription") @@ "Vec<Subtitles>" :> ListOf("Subtitles")
    @@ "MainAxisAlignment" :> Units(<< "Start", "Center", "End", "SpaceBetween", "SpaceAround",
          "SpaceEvenly" >>)
    @@ "MainAxisSize" :> Units(<< "Min", "Max" >>)
    @@ "MediaType" :> Units(<< "Video", "Comic", "Audio", "Book", "Unknown" >>)
    @@ "MixedContent" :> OneOf(<<
        << "Text", << <<"content", "String">>, <<"style", "Option<TextStyle>">> >> >>,
        << "CustomUI", << <<"ui", "Box<CustomUI>">> >> >>,
        << "Table", << <<"columns", "Vec<Row>">> >> >> >>)
    @@ "Option<HashMap<String, String>>" :> Maybe("HashMap<String, String>")

RustReadsOptionString ==
       "Option<String>" :> Maybe("String") @@ "Option<CancelToken>" :> Maybe("CancelToken")
    @@ "Option<DateTime>" :> Maybe("DateTime") @@ "Option<Account>" :> Maybe("Account")
    @@ "Option<Alignment>" :> Maybe("Alignment") @@ "Option<AuthCreds>" :> Maybe("AuthCreds")
    @@ "Option<bool>" :> Maybe("bool") @@ "Option<ButtonType>" :> Maybe("ButtonType")
    @@ "Option<ChapterKind>" :> Maybe("ChapterKind")
    @@ "Option<ColorToken>" :> Maybe("ColorToken")
    @@ "Option<ContainerType>" :> Maybe("ContainerType")
    @@ "Option<CrossAxisAlignment>" :> Maybe("CrossAxisAlignment")

RustReadsOptionCustomUI ==
       "Option<CustomUI>" :> Maybe("CustomUI") @@ "Option<EdgeInsets>" :> Maybe("EdgeInsets")
    @@ "Option<EventResult>" :> Maybe("EventResult") @@ "Option<f32>" :> Maybe("f32")
    @@ "Option<f64>" :> Maybe("f64") @@ "Option<i32>" :> Maybe("i32")
    @@ "Option<Link>" :> Maybe("Link")
    @@ "Option<MainAxisAlignment>" :> Maybe("MainAxisAlignment")
    @@ "Option<MainAxisSize>" :> Maybe("MainAxisSize")
    @@ "Option<SettingsUI>" :> Maybe("SettingsUI") @@ "Option<StackFit>" :> Maybe("StackFit")
    @@ "Option<TextStyle>" :> Maybe("TextStyle")

RustReadsOptionU32 ==
       "Option<u32>" :> Maybe("u32")
    @@ "Option<WrapAlignment>" :> Maybe("WrapAlignment")
    @@ "Option<Box<CustomUI>>" :> Maybe("Box<CustomUI>")
    @@ "Option<Box<Interaction>>" :> Maybe("Box<Interaction>")
    @@ "Option<Vec<String>>" :> Maybe("Vec<String>")
    @@ "Option<Vec<Chapter>>" :> Maybe("Vec<Chapter>")
    @@ "Option<Vec<ImageListAudio>>" :> Maybe("Vec<ImageListAudio>")
    @@ "Option<Vec<Permission>>" :> Maybe("Vec<Permission>")
    @@ "Paragraph" :> OneOf(<<
        << "Text", << <<"content", "String">>, <<"style", "Option<TextStyle>">> >> >>,
        << "Mixed", << <<"content", "Vec<MixedContent>">> >> >>,
        << "CustomUI", << <<"ui", "Box<CustomUI>">> >> >>,
        << "Table", << <<"columns", "Vec<Row>">> >> >> >>)

RustReadsPermission ==
       "Permission" :> OneOf(<<
        << "Storage", << <<"path", "String">>, <<"write", "bool">> >> >>,
        << "Network", << <<"domains", "Vec<String>">> >> >>,
        << "ActionPopup", << >> >>,
        << "ArbitraryNetwork", << >> >> >>)
    @@ "PopupAction" :> Fields(<< <<"label", "String">>, <<"onclick", "Box<Action>">> >>)
    @@ "(String, Vec<String>)" :> Fields(<< <<"field0", "String">>, <<"field1", "Vec<String>">> >>)
    @@ "(String, Setting)" :> Fields(<< <<"field0", "String">>, <<"field1", "Setting">> >>)
    @@ "(String, SlotValue)" :> Fields(<< <<"field0", "String">>, <<"field1", "SlotValue">> >>)
    @@ "(String, String)" :> Fields(<< <<"field0", "String">>, <<"field1", "String">> >>)
    @@ "ReleaseStatus" :> Units(<< "Releasing", "Complete", "Unknown" >>)
    @@ "RemoteExtension" :> Fields(<< <<"remoteId", "String">>, <<"id", "String">>, <<"name", "String">>,
          <<"url", "String">>, <<"cover", "Option<Link>">>, <<"version", "String">>,
          <<"compatible", "bool">>, <<"permissions", "Option<Vec<Permission>>">>,
          <<"authors", "Vec<String>">>, <<"lang", "Vec<String>">>,
          <<"tags", "Vec<String>">>, <<"nsfw", "bool">>,
          <<"mediaType", "HashSet<MediaType>">>,
          <<"extensionKinds", "Vec<ExtensionKind>">> >>)
    @@ "RemoteExtensionResult" :> Fields(<< <<"content", "Vec<RemoteExtension>">>, <<"hasnext", "Option<bool>">>,
          <<"length", "Option<i32>">> >>)

RustReadsRow ==
       "Row" :> Fields(<< <<"cells", "Vec<Paragraph>">> >>)
    @@ "Setting" :> Fields(<< <<"label", "String">>, <<"value", "SettingValue">>, <<"default", "SettingValue">>,
          <<"visible", "bool">>, <<"ui", "Option<SettingsUI>">> >>)
    @@ "SettingKind" :> Units(<< "Extension", "Search" >>)
    @@ "SettingValue" :> OneOf(<<
        << "String", << <<"data", "String">> >> >>,
        << "Number", << <<"data", "f32">> >> >>,
        << "Boolean", << <<"data", "bool">> >> >>,
        << "StringList", << <<"data", "Vec<String>">> >> >> >>)
    @@ "SettingsUI" :> OneOf(<<
        << "CheckBox", << >> >>,
        << "Slider", << <<"min", "f64">>, <<"max", "f64">>, <<"step", "i32">> >> >>,
        << "Dropdown", << <<"options", "Vec<DropdownOption>">> >> >>,
        << "MultiDropdown", << <<"options", "Vec<DropdownOption>">> >> >>,
        << "Directory", << <<"write", "bool">> >> >>,
        << "CustomUI", << <<"ui", "CustomUI">> >> >> >>)
    @@ "SlotValue" :> OneOf(<<
        << "Setting", << <<"value", "SettingValue">> >> >>,
        << "Store", << <<"key", "String">>, <<"value", "String">> >> >> >>)

RustReadsSource ==
       "Source" :> OneOf(<<
        << "Epub", << <<"link", "Link">> >> >>,
        << "Pdf", << <<"link", "Link">> >> >>,
        << "Imagelist", << <<"links", "Vec<Link>">>,
            <<"audio", "Option<Vec<ImageListAudio>>">> >> >>,
        << "Video", << <<"sources", "Vec<StreamSource>">>, <<"sub", "Vec<Subtitles>">>,
            <<"chapters", "Option<Vec<Chapter>>">> >> >>,
        << "Audio", << <<"sources", "Vec<StreamSource>">>,
            <<"chapters", "Option<Vec<Chapter>>">> >> >>,
        << "Paragraphlist", << <<"paragraphs", "Vec<Paragraph>">>,
            <<"audio", "Option<Vec<ImageListAudio>>">> >> >> >>)
    @@ "SourceOpenType" :> Units(<< "Download", "Stream" >>)
    @@ "SourceResult" :> Fields(<< <<"source", "Source">>,
          <<"settings", "HashMap<String, Setting>">> >>)
    @@ "SourceType" :> Units(<< "Epub", "Pdf", "Imagelist", "Video", "Audio", "Paragraphlist" >>)
    @@ "StackFit" :> Units(<< "Loose", "Expand", "Passthrough" >>)
    @@ "StorageUsage" :> Fields(<< <<"cache", "f64">>, <<"extensionBytes", "f64">>,
          <<"data", "f64">> >>)
    @@ "StreamSource" :> Fields(<< <<"name", "String">>, <<"lang", "String">>,
          <<"url", "Link">> >>)

RustReadsSubscription ==
       "Subscription" :> Fields(<< <<"source", "SubscriptionSource">>, <<"key", "String">>,
          <<"stateKey", "String">> >>)
    @@ "SubscriptionSource" :> OneOf(<<
        << "Store", << >> >>,
        << "Setting", << <<"kind", "SettingKind">> >> >>,
        << "EntrySetting", << >> >> >>)
    @@ "Subtitles" :> Fields(<< <<"title", "String">>, <<"lang", "String">>, <<"url", "Link">> >>)
    @@ "TextStyle" :> Fields(<< <<"bold", "Option<bool>">>, <<"italic", "Option<bool>">>,
          <<"underline", "Option<bool>">>, <<"strikethrough", "Option<bool>">>,
          <<"code", "Option<bool>">>, <<"link", "Option<String>">>,
          <<"fontSize", "Option<i32>">> >>)
    @@ "TimestampType" :> Units(<< "Relative", "Absolute" >>)
    @@ "ToastKind" :> Units(<< "Info", "Success", "Warning", "Error" >>)
    @@ "u32" :> Plain("u32") @@ "u8" :> Plain("u8") @@ "()" :> Fields(<< >>)
    @@ "usize" :> Plain("64 bits")
    @@ "WrapAlignment" :> Units(<< "Start", "Center", "End", "SpaceBetween", "SpaceAround",
          "SpaceEvenly" >>)

(***************************************************************************)
(* Writing: impl SseEncode.                                                *)
(***************************************************************************)
RustWritesError ==
       "anyhow::Error" :> Wraps("String")
    @@ "CancelToken" :> Wraps("RustOpaqueNom<CancelToken>")
    @@ "ExtensionClient" :> Wraps("RustOpaqueNom<ExtensionClient>")
    @@ "ManagerClient" :> Wraps("RustOpaqueNom<ManagerClient>")
    @@ "ProxyAdapter" :> Wraps("RustOpaqueNom<ProxyAdapter>")
    @@ "ProxyExtension" :> Wraps("RustOpaqueNom<ProxyExtension>")
    @@ "DateTime" :> Fields(<< <<"microseconds", "i64">> >>)
    @@ "DartOpaque" :> Wraps("usize")
    @@ "HashMap<String, String>" :> Wraps("Vec<(String, String)>")
    @@ "HashMap<String, Vec<String>>" :> Wraps("Vec<(String, Vec<String>)>")
    @@ "HashMap<String, Setting>" :> Wraps("Vec<(String, Setting)>")
    @@ "HashMap<String, SlotValue>" :> Wraps("Vec<(String, SlotValue)>")
    @@ "RustOpaqueNom<CancelToken>" :> Fields(<< <<"ptr", "usize">>, <<"size", "i32">> >>)
    @@ "RustOpaqueNom<ExtensionClient>" :> Fields(<< <<"ptr", "usize">>, <<"size", "i32">> >>)
    @@ "RustOpaqueNom<ManagerClient>" :> Fields(<< <<"ptr", "usize">>, <<"size", "i32">> >>)
    @@ "RustOpaqueNom<ProxyAdapter>" :> Fields(<< <<"ptr", "usize">>, <<"size", "i32">> >>)
    @@ "RustOpaqueNom<ProxyExtension>" :> Fields(<< <<"ptr", "usize">>, <<"size", "i32">> >>)

RustWritesHashSetExtensionType ==
       "HashSet<ExtensionType>" :> Wraps("Vec<ExtensionType>")
    @@ "HashSet<MediaType>" :> Wraps("Vec<MediaType>")
    @@ "HashSet<SourceOpenType>" :> Wraps("Vec<SourceOpenType>")
    @@ "HashSet<SourceType>" :> Wraps("Vec<SourceType>")
    @@ "String" :> Wraps("Vec<u8>")
    @@ "Account" :> Fields(<< <<"domain", "String">>, <<"userName", "Option<String>">>,
          <<"cover", "Option<String>">>, <<"auth", "AuthData">>,
          <<"creds", "Option<AuthCreds>">> >>)
    @@ "Action" :> OneOf(<<
        << "OpenBrowser", << <<"url", "String">> >> >>,
        << "Popup", << <<"title", "String">>, <<"content", "Box<CustomUI>">>,
            <<"actions", "Vec<PopupAction>">> >> >>,
        << "Nav", << <<"title", "String">>, <<"content", "Box<CustomUI>">> >> >>,
        << "PopView", << >> >>,
        << "NavEntry", << <<"entry", "Box<EntryDetailed>">> >> >>,
        << "ShowToast", << <<"message", "String">>, <<"kind", "ToastKind">> >> >> >>)
    @@ "Alignment" :> Units(<< "Center", "TopLeft", "TopCenter", "TopRight", "CenterLeft", "CenterRight",
          "BottomLeft", "BottomCenter", "BottomRight" >>)

RustWritesAuthCreds ==
       "AuthCreds" :> OneOf(<<
        << "Cookies", << <<"cookies", "HashMap<String, Vec<String>>">> >> >>,
        << "ApiKey", << <<"key", "String">> >> >>,
        << "UserPass", << <<"username", "String">>, <<"password", "String">> >> >>,
        << "OAuth", << <<"accessToken", "String">>, <<"refreshToken", "Option<String>">>,
            <<"expiresAt", "Option<u32>">> >> >> >>)
    @@ "AuthData" :> OneOf(<<
        << "Cookie", << <<"loginpage", "String">>, <<"logonpage", "String">> >> >>,
        << "ApiKey", << >> >>,
        << "UserPass", << >> >>,
        << "OAuth", << <<"authorizationUrl", "String">>, <<"tokenUrl", "Option<String>">>,
            <<"clientId", "String">>, <<"clientSecret", "String">>,
            <<"scope", "Option<String>">> >> >> >>)
    @@ "bool" :> Plain("u8") @@ "Box<Action>" :> Wraps("Action")
    @@ "Box<CustomUI>" :> Wraps("CustomUI")
    @@ "Box<EntryDetailed>" :> Wraps("EntryDetailed")
    @@ "Box<Interaction>" :> Wraps("Interaction")
    @@ "ButtonType" :> Units(<< "Filled", "Ghost", "Elevated" >>)
    @@ "Chapter" :> Fields(<< <<"title", "String">>, <<"start", "f64">>, <<"end", "Option<f64>">>,
          <<"kind", "Option<ChapterKind>">> >>)

RustWritesChapterKind ==
       "ChapterKind" :> Units(<< "Intro", "Outro", "Recap", "Filler", "Preview" >>)
    @@ "ColorToken" :> Units(<< "Primary", "OnPrimary", "PrimaryContainer", "OnPrimaryContainer", "Secondary",
          "OnSecondary", "Surface", "OnSurface", "SurfaceContainer",
          "SurfaceContainerHighest", "Error", "OnError", "Disabled", "Shadow" >>)
    @@ "ContainerType" :> Units(<< "Ghost", "Filled", "Outlined" >>)
    @@ "CrossAxisAlignment" :> Units(<< "Start", "Center", "End", "Stretch", "Baseline" >>)

RustWritesCustomUIText == <<
    << "Text", << <<"text", "String">>, <<"style", "Option<TextStyle>">> >> >>,
    << "Image", << <<"image", "Link">>, <<"width", "Option<i32>">>,
        <<"height", "Option<i32>">> >> >>,
    << "Link", << <<"link", "String">>, <<"label", "Option<String>">> >> >>,
    << "Timestamp", << <<"timestamp", "DateTime">>, <<"display", "TimestampType">> >> >>,
    << "EntryCard", << <<"entry", "Entry">> >> >>,
    << "Card", << <<"image", "Link">>, <<"top", "Box<CustomUI>">>,
        <<"bottom", "Box<CustomUI>">>, <<"onClick", "Option<Box<Interaction>>">> >> >>,
    << "Spinner", << >> >>,
    << "Feed", << <<"handler", "String">>, <<"data", "String">> >> >>,
    << "Button", << <<"label", "String">>, <<"onClick", "Option<Box<Interaction>>">>,
        <<"buttonType", "Option<ButtonType>">>, <<"color", "Option<ColorToken>">> >> >>,
    << "InlineSetting", << <<"settingId", "String">>, <<"settingKind", "SettingKind">>,
        <<"onCommit", "Option<Box<Interaction>>">> >> >>,
    << "Slot", << <<"handler", "String">>, <<"child", "Box<CustomUI>">>,
        <<"staticData", "String">>, <<"subscriptions", "Vec<Subscription>">> >> >>,
    << "Column", << <<"children", "Vec<CustomUI>">>,
        <<"mainAxisAlignment", "Option<MainAxisAlignment>">>,
        <<"crossAxisAlignment", "Option<CrossAxisAlignment>">>,
        <<"mainAxisSize", "Option<MainAxisSize>">>, <<"scrollable", "bool">> >> >> >>

RustWritesCustomUIRow == <<
    << "Row", << <<"children", "Vec<CustomUI>">>,
        <<"mainAxisAlignment", "Option<MainAxisAlignment>">>,
        <<"crossAxisAlignment", "Option<CrossAxisAlignment>">>,
        <<"mainAxisSize", "Option<MainAxisSize>">>, <<"scrollable", "bool">> >> >>,
    << "TextInput", << <<"onChange", "Option<Box<Interaction>>">>,
        <<"debounceMs", "Option<i32>">>, <<"initial", "Option<String>">>,
        <<"onCommit", "Option<Box<Interaction>>">> >> >>,
    << "Padding", << <<"padding", "EdgeInsets">>, <<"child", "Box<CustomUI>">> >> >>,
    << "Container", << <<"child", "Box<CustomUI>">>,
        <<"containerType", "Option<ContainerType>">>, <<"color", "Option<ColorToken>">>,
        <<"borderColor", "Option<ColorToken>">>, <<"padding", "Option<EdgeInsets>">>,
        <<"width", "Option<f32>">>, <<"height", "Option<f32>">>,
        <<"alignment", "Option<Alignment>">>, <<"emphasized", "Option<bool>">> >> >>,
    << "Clickable", << <<"child", "Box<CustomUI>">>,
        <<"onClick", "Option<Box<Interaction>>">>,
        <<"onLongClick", "Option<Box<Interaction>>">> >> >>,
    << "Expanded", << <<"child", "Box<CustomUI>">>, <<"flex", "i32">> >> >>,
    << "SizedBox", << <<"width", "Option<f32>">>, <<"height", "Option<f32>">>,
        <<"child", "Option<Box<CustomUI>>">> >> >>,
    << "Spacer", << <<"flex", "i32">> >> >>,
    << "Wrap", << <<"children", "Vec<CustomUI>">>, <<"spacing", "Option<f32>">>,
        <<"runSpacing", "Option<f32>">>, <<"alignment", "Option<WrapAlignment>">> >> >>,
    << "Center", << <<"child", "Box<CustomUI>">> >> >>,
    << "Align", << <<"alignment", "Alignment">>, <<"child", "Box<CustomUI>">> >> >> >>

RustWritesCustomUIStack == <<
    << "Stack", << <<"children", "Vec<CustomUI>">>, <<"alignment", "Option<Alignment>">>,
        <<"fit", "Option<StackFit>">> >> >>,
    << "Divider", << >> >>,
    << "ListTile", << <<"leading", "Option<Box<CustomUI>>">>,
        <<"title", "Option<Box<CustomUI>>">>, <<"subtitle", "Option<Box<CustomUI>>">>,
        <<"trailing", "Option<Box<CustomUI>>">>, <<"onClick", "Option<Box<Interaction>>">>,
        <<"onLongClick", "Option<Box<Interaction>>">> >> >>,
    << "Badge", << <<"child", "Box<CustomUI>">>, <<"color", "Option<ColorToken>">> >> >>,
    << "FoldableText", << <<"text", "String">>, <<"maxLines", "i32">>,
        <<"style", "Option<TextStyle>">>, <<"animate", "bool">> >> >>,
    << "StarDisplay", << <<"fill", "f32">>, <<"maxStars", "i32">> >> >>,
    << "Dropdown", << <<"items", "Vec<DropdownItem>">>,
        <<"initialValue", "Option<String>">>,
        <<"onChange", "Option<Box<Interaction>>">> >> >> >>

RustWritesCustomUI == "CustomUI" :> OneOf(RustWritesCustomUIText \o RustWritesCustomUIRow \o RustWritesCustomUIStack)

RustWritesDropdownItem ==
       "DropdownItem" :> Fields(<< <<"value", "String">>, <<"label", "String">> >>)
    @@ "DropdownOption" :> Fields(<< <<"label", "String">>, <<"value", "String">> >>)
    @@ "EdgeInsets" :> Fields(<< <<"left", "Option<f32>">>, <<"top", "Option<f32>">>, <<"right", "Option<f32>">>,
          <<"bottom", "Option<f32>">> >>)
    @@ "Entry" :> Fields(<< <<"id", "EntryId">>, <<"url", "String">>, <<"title", "String">>,
          <<"mediaType", "MediaType">>, <<"cover", "Option<Link>">>,
          <<"author", "Option<Vec<String>>">>, <<"rating", "Option<f32>">>,
          <<"views", "Option<f32>">>, <<"length", "Option<i32>">> >>)
    @@ "EntryActivity" :> OneOf(<<
        << "EpisodeActivity", << <<"progress", "i32">> >> >> >>)
    @@ "EntryDetailed" :> Fields(<< <<"id", "EntryId">>, <<"url", "String">>, <<"titles", "Vec<String>">>,
          <<"author", "Option<Vec<String>>">>, <<"ui", "Option<CustomUI>">>,
          <<"meta", "Option<HashMap<String, String>>">>, <<"mediaType", "MediaType">>,
          <<"status", "ReleaseStatus">>, <<"description", "String">>,
          <<"language", "String">>, <<"cover", "Option<Link>">>,
          <<"poster", "Option<Link>">>, <<"episodes", "Vec<Episode>">>,
          <<"genres", "Option<Vec<String>>">>, <<"rating", "Option<f32>">>,
          <<"views", "Option<f32>">>, <<"length", "Option<i32>">> >>)
    @@ "EntryDetailedResult" :> Fields(<< <<"entry", "EntryDetailed">>,
          <<"settings", "HashMap<String, Setting>">> >>)
    @@ "EntryId" :> Fields(<< <<"uid", "String">>, <<"iddata", "Option<String>">> >>)
    @@ "EntryList" :> Fields(<< <<"hasnext", "Option<bool>">>, <<"length", "Option<i32>">>,
          <<"content", "Vec<Entry>">> >>)
    @@ "Episode" :> Fields(<< <<"id", "EpisodeId">>, <<"name", "String">>, <<"description", "Option<String>">>,
          <<"url", "String">>, <<"cover", "Option<Link>">>,
          <<"timestamp", "Option<DateTime>">>, <<"announced", "Option<bool>">> >>)
    @@ "EpisodeId" :> Fields(<< <<"uid", "String">>, <<"iddata", "Option<String>">> >>)

RustWritesEventData ==
       "EventData" :> OneOf(<<
        << "LoadSlot", << <<"handler", "String">>, <<"staticData", "String">>,
            <<"values", "HashMap<String, SlotValue>">> >> >>,
        << "LoadPage", << <<"handler", "String">>, <<"data", "String">>,
            <<"page", "i32">> >> >>,
        << "Invoke", << <<"handler", "String">>, <<"payload", "String">> >> >> >>)
    @@ "EventResult" :> OneOf(<<
        << "SlotContent", << <<"customui", "CustomUI">> >> >>,
        << "FeedPage", << <<"items", "Vec<CustomUI>">>, <<"hasMore", "bool">> >> >> >>)
    @@ "ExtensionData" :> Fields(<< <<"id", "String">>, <<"name", "String">>, <<"url", "String">>,
          <<"icon", "String">>, <<"desc", "Option<String>">>, <<"author", "Vec<String>">>,
          <<"tags", "Vec<String>">>, <<"lang", "Vec<String>">>, <<"nsfw", "bool">>,
          <<"mediaType", "HashSet<MediaType>">>,
          <<"extensionType", "HashSet<ExtensionType>">>, <<"repo", "Option<String>">>,
          <<"version", "String">>, <<"license", "String">>, <<"compatible", "bool">>,
          <<"permissions", "Option<Vec<Permission>>">> >>)
    @@ "ExtensionKind" :> Units(<< "EntryProvider", "SourceProcessor", "EntryProcessor",
          "UrlHandler" >>)
    @@ "ExtensionManagerData" :> Fields(<< <<"name", "String">>, <<"icon", "Option<String>">>, <<"repo", "Option<String>">>,
          <<"apiVersion", "u32">> >>)
    @@ "ExtensionRepo" :> Fields(<< <<"remoteId", "String">>, <<"name", "String">>, <<"description", "String">>,
          <<"url", "String">> >>)

RustWritesExtensionType ==
       "ExtensionType" :> OneOf(<<
        << "EntryProvider", << <<"hasSearch", "bool">> >> >>,
        << "SourceProcessor", << <<"sourcetypes", "HashSet<SourceType>">>,
            <<"opentype", "HashSet<SourceOpenType>">> >> >>,
        << "EntryProcessor", << <<"triggerMapEntry", "bool">>,
            <<"triggerOnEntryActivity", "bool">> >> >>,
        << "URLHandler", << <<"urlPatterns", "Vec<String>">> >> >> >>)
    @@ "f32" :> Plain("f32") @@ "f64" :> Plain("f64") @@ "i32" :> Plain("i32")
    @@ "i64" :> Plain("64 bits")
    @@ "ImageListAudio" :> Fields(<< <<"link", "Link">>, <<"from", "i32">>, <<"to", "i32">> >>)
    @@ "Interaction" :> OneOf(<<
        << "Invoke", << <<"handler", "String">>, <<"payload", "String">> >> >>,
        << "WriteKey", << <<"key", "String">>, <<"value", "String">> >> >> >>)
    @@ "isize" :> Plain("64 bits")
    @@ "Link" :> Fields(<< <<"url", "String">>, <<"header", "Option<HashMap<String, String>>">> >>)
    @@ "Vec<ProxyExtension>" :> ListOf("ProxyExtension")
    @@ "Vec<String>" :> ListOf("String") @@ "Vec<Account>" :> ListOf("Account")

RustWritesVecChapter ==
       "Vec<Chapter>" :> ListOf("Chapter") @@ "Vec<CustomUI>" :> ListOf("CustomUI")
    @@ "Vec<DropdownItem>" :> ListOf("DropdownItem")
    @@ "Vec<DropdownOption>" :> ListOf("DropdownOption")
    @@ "Vec<Entry>" :> ListOf("Entry") @@ "Vec<Episode>" :> ListOf("Episode")
    @@ "Vec<ExtensionKind>" :> ListOf("ExtensionKind")
    @@ "Vec<ExtensionType>" :> ListOf("ExtensionType")
    @@ "Vec<ImageListAudio>" :> ListOf("ImageListAudio")
    @@ "Vec<Link>" :> ListOf("Link") @@ "Vec<MediaType>" :> ListOf("MediaType")
    @@ "Vec<MixedContent>" :> ListOf("MixedContent") @@ "Vec<Paragraph>" :> ListOf("Paragraph")
    @@ "Vec<Permission>" :> ListOf("Permission") @@ "Vec<PopupAction>" :> ListOf("PopupAction")

RustWritesVecU8 ==
       "Vec<u8>" :> ListOf("u8")
    @@ "Vec<(String, Vec<String>)>" :> ListOf("(String, Vec<String>)")
    @@ "Vec<(String, Setting)>" :> ListOf("(String, Setting)")
    @@ "Vec<(String, SlotValue)>" :> ListOf("(String, SlotValue)")
    @@ "Vec<(String, String)>" :> ListOf("(String, String)")
    @@ "Vec<RemoteExtension>" :> ListOf("RemoteExtension")
    @@ "Vec<Row>" :> ListOf("Row")
    @@ "Vec<SourceOpenType>" :> ListOf("SourceOpenType")
    @@ "Vec<SourceType>" :> ListOf("SourceType")
    @@ "Vec<StreamSource>" :> ListOf("StreamSource")
    @@ "Vec<Subscription>" :> ListOf("Subscription") @@ "Vec<Subtitles>" :> ListOf("Subtitles")
    @@ "MainAxisAlignment" :> Units(<< "Start", "Center", "End", "SpaceBetween", "SpaceAround",
          "SpaceEvenly" >>)

RustWritesMainAxisSize ==
       "MainAxisSize" :> Units(<< "Min", "Max" >>)
    @@ "MediaType" :> Units(<< "Video", "Comic", "Audio", "Book", "Unknown" >>)
    @@ "MixedContent" :> OneOf(<<
        << "Text", << <<"content", "String">>, <<"style", "Option<TextStyle>">> >> >>,
        << "CustomUI", << <<"ui", "Box<CustomUI>">> >> >>,
        << "Table", << <<"columns", "Vec<Row>">> >> >> >>)
    @@ "Option<HashMap<String, String>>" :> Maybe("HashMap<String, String>")
    @@ "Option<String>" :> Maybe("String") @@ "Option<CancelToken>" :> Maybe("CancelToken")
    @@ "Option<DateTime>" :> Maybe("DateTime") @@ "Option<Account>" :> Maybe("Account")
    @@ "Option<Alignment>" :> Maybe("Alignment") @@ "Option<AuthCreds>" :> Maybe("AuthCreds")
    @@ "Option<bool>" :> Maybe("bool") @@ "Option<ButtonType>" :> Maybe("ButtonType")

RustWritesOptionChapterKind ==
       "Option<ChapterKind>" :> Maybe("ChapterKind")
    @@ "Option<ColorToken>" :> Maybe("ColorToken")
    @@ "Option<ContainerType>" :> Maybe("ContainerType")
    @@ "Option<CrossAxisAlignment>" :> Maybe("CrossAxisAlignment")
    @@ "Option<CustomUI>" :> Maybe("CustomUI") @@ "Option<EdgeInsets>" :> Maybe("EdgeInsets")
    @@ "Option<EventResult>" :> Maybe("EventResult") @@ "Option<f32>" :> Maybe("f32")
    @@ "Option<f64>" :> Maybe("f64") @@ "Option<i32>" :> Maybe("i32")
    @@ "Option<Link>" :> Maybe("Link")
    @@ "Option<MainAxisAlignment>" :> Maybe("MainAxisAlignment")
    @@ "Option<MainAxisSize>" :> Maybe("MainAxisSize")
    @@ "Option<SettingsUI>" :> Maybe("SettingsUI") @@ "Option<StackFit>" :> Maybe("StackFit")

RustWritesOptionTextStyle ==
       "Option<TextStyle>" :> Maybe("TextStyle") @@ "Option<u32>" :> Maybe("u32")
    @@ "Option<WrapAlignment>" :> Maybe("WrapAlignment")
    @@ "Option<Box<CustomUI>>" :> Maybe("Box<CustomUI>")
    @@ "Option<Box<Interaction>>" :> Maybe("Box<Interaction>")
    @@ "Option<Vec<String>>" :> Maybe("Vec<String>")
    @@ "Option<Vec<Chapter>>" :> Maybe("Vec<Chapter>")
    @@ "Option<Vec<ImageListAudio>>" :> Maybe("Vec<ImageListAudio>")
    @@ "Option<Vec<Permission>>" :> Maybe("Vec<Permission>")
    @@ "Paragraph" :> OneOf(<<
        << "Text", << <<"content", "String">>, <<"style", "Option<TextStyle>">> >> >>,
        << "Mixed", << <<"content", "Vec<MixedContent>">> >> >>,
        << "CustomUI", << <<"ui", "Box<CustomUI>">> >> >>,
        << "Table", << <<"columns", "Vec<Row>">> >> >> >>)
    @@ "Permission" :> OneOf(<<
        << "Storage", << <<"path", "String">>, <<"write", "bool">> >> >>,
        << "Network", << <<"domains", "Vec<String>">> >> >>,
        << "ActionPopup", << >> >>,
        << "ArbitraryNetwork", << >> >> >>)

RustWritesPopupAction ==
       "PopupAction" :> Fields(<< <<"label", "String">>, <<"onclick", "Box<Action>">> >>)
    @@ "(String, Vec<String>)" :> Fields(<< <<"field0", "String">>, <<"field1", "Vec<String>">> >>)
    @@ "(String, Setting)" :> Fields(<< <<"field0", "String">>, <<"field1", "Setting">> >>)
    @@ "(String, SlotValue)" :> Fields(<< <<"field0", "String">>, <<"field1", "SlotValue">> >>)
    @@ "(String, String)" :> Fields(<< <<"field0", "String">>, <<"field1", "String">> >>)
    @@ "ReleaseStatus" :> Units(<< "Releasing", "Complete", "Unknown" >>)
    @@ "RemoteExtension" :> Fields(<< <<"remoteId", "String">>, <<"id", "String">>, <<"name", "String">>,
          <<"url", "String">>, <<"cover", "Option<Link>">>, <<"version", "String">>,
          <<"compatible", "bool">>, <<"permissions", "Option<Vec<Permission>>">>,
          <<"authors", "Vec<String>">>, <<"lang", "Vec<String>">>,
          <<"tags", "Vec<String>">>, <<"nsfw", "bool">>,
          <<"mediaType", "HashSet<MediaType>">>,
          <<"extensionKinds", "Vec<ExtensionKind>">> >>)
    @@ "RemoteExtensionResult" :> Fields(<< <<"content", "Vec<RemoteExtension>">>, <<"hasnext", "Option<bool>">>,
          <<"length", "Option<i32>">> >>)
    @@ "Row" :> Fields(<< <<"cells", "Vec<Paragraph>">> >>)
    @@ "Setting" :> Fields(<< <<"label", "String">>, <<"value", "SettingValue">>, <<"default", "SettingValue">>,
          <<"visible", "bool">>, <<"ui", "Option<SettingsUI>">> >>)
    @@ "SettingKind" :> Units(<< "Extension", "Search" >>)

RustWritesSettingValue ==
       "SettingValue" :> OneOf(<<
        << "String", << <<"data", "String">> >> >>,
        << "Number", << <<"data", "f32">> >> >>,
        << "Boolean", << <<"data", "bool">> >> >>,
        << "StringList", << <<"data", "Vec<String>">> >> >> >>)
    @@ "SettingsUI" :> OneOf(<<
        << "CheckBox", << >> >>,
        << "Slider", << <<"min", "f64">>, <<"max", "f64">>, <<"step", "i32">> >> >>,
        << "Dropdown", << <<"options", "Vec<DropdownOption>">> >> >>,
        << "MultiDropdown", << <<"options", "Vec<DropdownOption>">> >> >>,
        << "Directory", << <<"write", "bool">> >> >>,
        << "CustomUI", << <<"ui", "CustomUI">> >> >> >>)
    @@ "SlotValue" :> OneOf(<<
        << "Setting", << <<"value", "SettingValue">> >> >>,
        << "Store", << <<"key", "String">>, <<"value", "String">> >> >> >>)
    @@ "Source" :> OneOf(<<
        << "Epub", << <<"link", "Link">> >> >>,
        << "Pdf", << <<"link", "Link">> >> >>,
        << "Imagelist", << <<"links", "Vec<Link>">>,
            <<"audio", "Option<Vec<ImageListAudio>>">> >> >>,
        << "Video", << <<"sources", "Vec<StreamSource>">>, <<"sub", "Vec<Subtitles>">>,
            <<"chapters", "Option<Vec<Chapter>>">> >> >>,
        << "Audio", << <<"sources", "Vec<StreamSource>">>,
            <<"chapters", "Option<Vec<Chapter>>">> >> >>,
        << "Paragraphlist", << <<"paragraphs", "Vec<Paragraph>">>,
            <<"audio", "Option<Vec<ImageListAudio>>">> >> >> >>)

RustWritesSourceOpenType ==
       "SourceOpenType" :> Units(<< "Download", "Stream" >>)
    @@ "SourceResult" :> Fields(<< <<"source", "Source">>,
          <<"settings", "HashMap<String, Setting>">> >>)
    @@ "SourceType" :> Units(<< "Epub", "Pdf", "Imagelist", "Video", "Audio", "Paragraphlist" >>)
    @@ "StackFit" :> Units(<< "Loose", "Expand", "Passthrough" >>)
    @@ "StorageUsage" :> Fields(<< <<"cache", "f64">>, <<"extensionBytes", "f64">>,
          <<"data", "f64">> >>)
    @@ "StreamSource" :> Fields(<< <<"name", "String">>, <<"lang", "String">>,
          <<"url", "Link">> >>)
    @@ "Subscription" :> Fields(<< <<"source", "SubscriptionSource">>, <<"key", "String">>,
          <<"stateKey", "String">> >>)
    @@ "SubscriptionSource" :> OneOf(<<
        << "Store", << >> >>,
        << "Setting", << <<"kind", "SettingKind">> >> >>,
        << "EntrySetting", << >> >> >>)
    @@ "Subtitles" :> Fields(<< <<"title", "String">>, <<"lang", "String">>, <<"url", "Link">> >>)
    @@ "TextStyle" :> Fields(<< <<"bold", "Option<bool>">>, <<"italic", "Option<bool>">>,
          <<"underline", "Option<bool>">>, <<"strikethrough", "Option<bool>">>,
          <<"code", "Option<bool>">>, <<"link", "Option<String>">>,
          <<"fontSize", "Option<i32>">> >>)
    @@ "TimestampType" :> Units(<< "Relative", "Absolute" >>)

RustWritesToastKind ==
       "ToastKind" :> Units(<< "Info", "Success", "Warning", "Error" >>)
    @@ "u32" :> Plain("u32") @@ "u8" :> Plain("u8") @@ "()" :> Fields(<< >>)
    @@ "usize" :> Plain("64 bits")
    @@ "WrapAlignment" :> Units(<< "Start", "Center", "End", "SpaceBetween", "SpaceAround",
          "SpaceEvenly" >>)

(***************************************************************************)
(* The whole tables.                                                       *)
(***************************************************************************)
RustReads ==
    RustReadsError @@ RustReadsRustOpaqueNomProxyAdapter @@ RustReadsAccount
    @@ RustReadsAction @@ RustReadsAuthData @@ RustReadsColorToken @@ RustReadsCustomUI
    @@ RustReadsDropdownItem @@ RustReadsEntryId @@ RustReadsExtensionData
    @@ RustReadsI32 @@ RustReadsVecDropdownItem @@ RustReadsVecParagraph
    @@ RustReadsVecSourceType @@ RustReadsOptionString @@ RustReadsOptionCustomUI
    @@ RustReadsOptionU32 @@ RustReadsPermission @@ RustReadsRow @@ RustReadsSource
    @@ RustReadsSubscription

RustWrites ==
    RustWritesError @@ RustWritesHashSetExtensionType @@ RustWritesAuthCreds
    @@ RustWritesChapterKind @@ RustWritesCustomUI @@ RustWritesDropdownItem
    @@ RustWritesEventData @@ RustWritesExtensionType @@ RustWritesVecChapter
    @@ RustWritesVecU8 @@ RustWritesMainAxisSize @@ RustWritesOptionChapterKind
    @@ RustWritesOptionTextStyle @@ RustWritesPopupAction @@ RustWritesSettingValue
    @@ RustWritesSourceOpenType @@ RustWritesToastKind
=============================================================================
